---- MODULE Spec2Model ----
(***************************************************************************)
(* Verification model of pons.js: the fee engine (src/cctp/fees.ts), the   *)
(* action validation (src/actions/ActionBuilder.ts), the hook-data codec   *)
(* (src/cctp/fees.ts), the transfer tracker (src/polling/TransferTracker)  *)
(* and the transfer orchestration (src/PonsClient.ts).                     *)
(***************************************************************************)
EXTENDS Integers, Sequences, FiniteSets, TLC

VARIABLES
    feeOp,      \* which fee function was applied last ("init" before any call)
    feeArgs,    \* the arguments of the fee call
    feeRes,     \* the value the fee call returned (or the error it threw)
    vaOp,       \* "init" before validateAction was called, then "validateAction"
    vaArgs,     \* the arguments of validateAction and the clock it reads
    vaRes,      \* "ok" when validateAction returned, else the error it threw
    vaShortfall, \* the shortfall the error message reports, in units, else "none"
    status,          \* TransferTracker.status
    polling,         \* TransferTracker.polling
    pollingInterval, \* TRUE when TransferTracker.pollingInterval holds a handle
    intervals,       \* number of setInterval timers of the tracker still active
    wakuUnsubscribe, \* TRUE when TransferTracker.wakuUnsubscribe is defined
    subs,            \* active push subscriptions: those the stored cleanup
                     \* function removes (held) and those it does not (loose)
    starting,        \* start() calls suspended in startWakuPolling, by await
    inFlight,        \* checkChainStatus executions suspended, by await
    timers,          \* pending setTimeout callbacks that announce
    wakuOn,          \* enableWakuPolling && wakuManager
    lastOp,          \* the handler that ran last
    emitted,         \* the events the last handler emitted, in order
    directExec,      \* a matching push 'executed' event hit the tracker while
                     \* INITIATED since the last start()
    waiter,          \* the waitForStatus call: its promise, its target, its
                     \* timeout and its 'statusChange' listener
    cdOp,       \* "init", then the codec call made
    cdArgs,     \* the action and the signature handed to encodeHookData
    cdHook,     \* the hook data encodeHookData returned (32-byte words)
    cdRes,      \* what decodeHookData returned for cdHook
    xPc,        \* where executeCCTPTransfer stands: "idle", the step it awaits,
                \* "returned" or "threw"
    xEnv,       \* the client: in a browser with a wallet or not, its transport
    xParams,    \* the CCTPTransferParams of the call
    xFees,      \* the breakdown validateBurnAmount returned
    xMinBurn,   \* the burn amount suggested when the amount is insufficient
    xAction,    \* the action fromOptions built
    xSignature, \* the signature signAction returned
    xHookData,  \* the hook data encodeHookData returned
    xReceipt,   \* the status of the burn receipt, "none" before it
    xLog,       \* the steps finished so far, in order
    xError,     \* the error executeCCTPTransfer rejected with
    xResult,    \* the TransferResult returned
    retry,     \* a retried call: its loop, its attempts and waits so far, its outcome
    ab,  \* an ActionBuilder, the arrays it allocated and the action build() returned
    cl,  \* PonsClient.create: the CHAINS registry, the calls made and what the last returned
    owner   \* the instance that owns polling intervals: its map and its timers

feeVars == <<feeOp, feeArgs, feeRes>>
vaVars == <<vaOp, vaArgs, vaRes, vaShortfall>>
trVars == <<status, polling, pollingInterval, intervals, wakuUnsubscribe, subs,
            starting, inFlight, timers, wakuOn, lastOp, emitted, directExec,
            waiter>>

cdVars == <<cdOp, cdArgs, cdHook, cdRes>>

vars == <<feeOp, feeArgs, feeRes, vaOp, vaArgs, vaRes, vaShortfall, status, polling,
          pollingInterval, intervals, wakuUnsubscribe, subs, starting, inFlight,
          timers, wakuOn, lastOp, emitted, directExec, waiter, cdOp, cdArgs, cdHook,
          cdRes, xPc, xEnv, xParams, xFees, xMinBurn, xAction, xSignature,
          xHookData, xReceipt, xLog, xError, xResult, retry,
          ab,
          cl,
          owner>>

xVars == <<xPc, xEnv, xParams, xFees, xMinBurn, xAction, xSignature, xHookData,
           xReceipt, xLog, xError, xResult>>

(***************************************************************************)
(* Each specification below exercises one part of the SDK; the parts it    *)
(* does not call stay in their idle state.                                 *)
(***************************************************************************)
NoResult == [none |-> TRUE]

FeeIdle ==
    /\ feeOp = "init"
    /\ feeArgs = NoResult
    /\ feeRes = NoResult

VaIdle ==
    /\ vaOp = "init"
    /\ vaArgs = NoResult
    /\ vaRes = "none"
    /\ vaShortfall = "none"

\* No waitForStatus call was made.
NoWaiter == [state |-> "none", target |-> "none", timer |-> FALSE, listener |-> FALSE]

\* The tracker as its constructor leaves it.
TrConstructed ==
    /\ status = "initiated"
    /\ polling = FALSE
    /\ pollingInterval = FALSE
    /\ intervals = 0
    /\ wakuUnsubscribe = FALSE
    /\ subs = [heldMint |-> 0, heldExec |-> 0, looseMint |-> 0, looseExec |-> 0]
    /\ starting = [subMint |-> 0, subExecWithMint |-> 0, subExecNoMint |-> 0]
    /\ inFlight = [attest |-> 0, flowMint |-> 0, flowExec |-> 0]
    /\ timers = 0
    /\ lastOp = "constructor"
    /\ emitted = << >>
    /\ directExec = FALSE
    /\ waiter = NoWaiter

TrIdle == TrConstructed /\ wakuOn = FALSE

CdIdle ==
    /\ cdOp = "init"
    /\ cdArgs = NoResult
    /\ cdHook = << >>
    /\ cdRes = NoResult

\* What a call into one part leaves alone: the state of the other parts.
XIdle ==
    /\ xPc = "idle"
    /\ xEnv = [browser |-> FALSE, transport |-> "gateway"]
    /\ xParams = NoResult
    /\ xFees = NoResult
    /\ xMinBurn = 0
    /\ xAction = NoResult
    /\ xSignature = << >>
    /\ xHookData = << >>
    /\ xReceipt = "none"
    /\ xLog = << >>
    /\ xError = ""
    /\ xResult = NoResult

\* No retried call was made.
NoRetry == [pc |-> "idle"]

RetryIdle == retry = NoRetry

\* No ActionBuilder was constructed.
NoBuilder == [pc |-> "idle"]

BuilderIdle == ab = NoBuilder

\* No PonsClient was asked for.
NoClient == [pc |-> "idle"]

ClientIdle == cl = NoClient

\* No PonsGatewayClient or WakuRestManager has been constructed.
NoOwner == [kind |-> "none"]

OwnerIdle == owner = NoOwner

FeeFrame == UNCHANGED <<vaVars, trVars, cdVars, xVars, retry, ab, cl, owner>>
VaFrame == UNCHANGED <<feeVars, trVars, cdVars, xVars, retry, ab, cl, owner>>
TrFrame == UNCHANGED <<feeVars, vaVars, cdVars, xVars, retry, ab, cl, owner>>
CdFrame == UNCHANGED <<feeVars, vaVars, trVars, xVars, retry, ab, cl, owner>>
XFrame == UNCHANGED <<feeVars, vaVars, trVars, cdVars, retry, ab, cl, owner>>
RetryFrame == UNCHANGED <<feeVars, vaVars, trVars, cdVars, xVars, ab, cl, owner>>
BuilderFrame == UNCHANGED <<feeVars, vaVars, trVars, cdVars, xVars, retry, cl, owner>>
ClientFrame == UNCHANGED <<feeVars, vaVars, trVars, cdVars, xVars, retry, ab, owner>>
OwnerFrame == UNCHANGED <<feeVars, vaVars, trVars, cdVars, xVars, retry, ab, cl>>

(***************************************************************************)
(* Bounds of the model                                                     *)
(***************************************************************************)
MaxAmount == 10
MaxFlatFee == 2
MaxCalls == 2
MaxPolls == 2
MaxStarts == 1
MaxLoose == 1
MaxTimers == 1
MaxRetries == 4
MaxBuilderOps == 3

(***************************************************************************)
(* bigint arithmetic                                                       *)
(***************************************************************************)
Abs(x) == IF x < 0 THEN -x ELSE x

\* bigint (a * b) / c: the product is exact (bigints do not overflow) and the
\* division truncates toward zero.  It is computed here as
\* q * b + (r * b) / c with a = q * c + r, which is the same number and keeps
\* every intermediate value small.  A zero divisor throws a RangeError, which
\* the callers below test for before dividing.
BigIntMulDiv(a, b, c) ==
    LET q == Abs(a) \div Abs(c)
        r == Abs(a) % Abs(c)
        m == q * Abs(b) + ((r * Abs(b)) \div Abs(c))
        neg == ((a < 0) /= (b < 0)) /= (c < 0)
    IN  IF neg THEN -m ELSE m

BPS_DENOMINATOR == 10000

(***************************************************************************)
(* DEFAULT_FEES                                                            *)
(***************************************************************************)
DEFAULT_CCTP_FEE_BPS == 1
DEFAULT_PROTOCOL_FEE_BPS == 10
DEFAULT_INDEXER_FEE == 100000
DEFAULT_RELAYER_FEE == 150000

\* options?.f ?? d: an option that is absent falls back to its default.
OrDefault(options, f, d) == IF f \in DOMAIN options THEN options[f] ELSE d

DivisionByZero == [error |-> "RangeError: Division by zero"]

(***************************************************************************)
(* calculateFeesSync(burnAmount, options)                                  *)
(***************************************************************************)
\* The forward calculation without the clamp of amountForAction at zero.
calculateFeesSyncNoClamp(burnAmount, options) ==
    LET indexerFee == OrDefault(options, "indexerFee", DEFAULT_INDEXER_FEE)
        relayerFee == OrDefault(options, "relayerFee", DEFAULT_RELAYER_FEE)
        protocolFeeBps == OrDefault(options, "protocolFeeBps", DEFAULT_PROTOCOL_FEE_BPS)
        cctpFeeBps == OrDefault(options, "cctpFeeBps", DEFAULT_CCTP_FEE_BPS)
        cctpFee == BigIntMulDiv(burnAmount, cctpFeeBps, BPS_DENOMINATOR)
        expectedAmount == burnAmount - cctpFee
        protocolFee == BigIntMulDiv(expectedAmount, protocolFeeBps, BPS_DENOMINATOR)
        totalFees == protocolFee + indexerFee + relayerFee
    IN  [burnAmount |-> burnAmount,
         cctpFee |-> cctpFee,
         expectedAmount |-> expectedAmount,
         protocolFee |-> protocolFee,
         indexerFee |-> indexerFee,
         relayerFee |-> relayerFee,
         totalFees |-> totalFees,
         amountForAction |-> expectedAmount - totalFees]

\* The forward calculation taking the protocol fee of the burn amount.
calculateFeesSyncFeeOnBurn(burnAmount, options) ==
    LET indexerFee == OrDefault(options, "indexerFee", DEFAULT_INDEXER_FEE)
        relayerFee == OrDefault(options, "relayerFee", DEFAULT_RELAYER_FEE)
        protocolFeeBps == OrDefault(options, "protocolFeeBps", DEFAULT_PROTOCOL_FEE_BPS)
        cctpFeeBps == OrDefault(options, "cctpFeeBps", DEFAULT_CCTP_FEE_BPS)
        cctpFee == BigIntMulDiv(burnAmount, cctpFeeBps, BPS_DENOMINATOR)
        expectedAmount == burnAmount - cctpFee
        protocolFee == BigIntMulDiv(burnAmount, protocolFeeBps, BPS_DENOMINATOR)
        totalFees == protocolFee + indexerFee + relayerFee
        amountForAction ==
            IF expectedAmount > totalFees THEN expectedAmount - totalFees ELSE 0
    IN  [burnAmount |-> burnAmount,
         cctpFee |-> cctpFee,
         expectedAmount |-> expectedAmount,
         protocolFee |-> protocolFee,
         indexerFee |-> indexerFee,
         relayerFee |-> relayerFee,
         totalFees |-> totalFees,
         amountForAction |-> amountForAction]

calculateFeesSync(burnAmount, options) ==
    LET indexerFee == OrDefault(options, "indexerFee", DEFAULT_INDEXER_FEE)
        relayerFee == OrDefault(options, "relayerFee", DEFAULT_RELAYER_FEE)
        protocolFeeBps == OrDefault(options, "protocolFeeBps", DEFAULT_PROTOCOL_FEE_BPS)
        cctpFeeBps == OrDefault(options, "cctpFeeBps", DEFAULT_CCTP_FEE_BPS)
        cctpFee == BigIntMulDiv(burnAmount, cctpFeeBps, BPS_DENOMINATOR)
        expectedAmount == burnAmount - cctpFee
        protocolFee == BigIntMulDiv(expectedAmount, protocolFeeBps, BPS_DENOMINATOR)
        totalFees == protocolFee + indexerFee + relayerFee
        amountForAction ==
            IF expectedAmount > totalFees THEN expectedAmount - totalFees ELSE 0
    IN  [burnAmount |-> burnAmount,
         cctpFee |-> cctpFee,
         expectedAmount |-> expectedAmount,
         protocolFee |-> protocolFee,
         indexerFee |-> indexerFee,
         relayerFee |-> relayerFee,
         totalFees |-> totalFees,
         amountForAction |-> amountForAction]

(***************************************************************************)
(* calculateBurnForAction(actionAmount, options)                           *)
(***************************************************************************)
\* The reverse calculation with the expected amount rounded up.
calculateBurnForActionRoundUp(actionAmount, options) ==
    LET indexerFee == OrDefault(options, "indexerFee", DEFAULT_INDEXER_FEE)
        relayerFee == OrDefault(options, "relayerFee", DEFAULT_RELAYER_FEE)
        protocolFeeBps == OrDefault(options, "protocolFeeBps", DEFAULT_PROTOCOL_FEE_BPS)
        cctpFeeBps == OrDefault(options, "cctpFeeBps", DEFAULT_CCTP_FEE_BPS)
        baseNeeded == actionAmount + indexerFee + relayerFee
    IN  IF BPS_DENOMINATOR - protocolFeeBps = 0 THEN DivisionByZero
        ELSE
        LET expectedAmount ==
                BigIntMulDiv(baseNeeded, BPS_DENOMINATOR, BPS_DENOMINATOR - protocolFeeBps)
                + (IF ((baseNeeded % (BPS_DENOMINATOR - protocolFeeBps)) * BPS_DENOMINATOR)
                          % (BPS_DENOMINATOR - protocolFeeBps) = 0
                   THEN 0 ELSE 1)
        IN  IF BPS_DENOMINATOR - cctpFeeBps = 0 THEN DivisionByZero
            ELSE
            LET burnAmount ==
                    BigIntMulDiv(expectedAmount, BPS_DENOMINATOR, BPS_DENOMINATOR - cctpFeeBps)
                cctpFee == burnAmount - expectedAmount
                protocolFee == BigIntMulDiv(expectedAmount, protocolFeeBps, BPS_DENOMINATOR)
                totalFees == protocolFee + indexerFee + relayerFee
            IN  [burnAmount |-> burnAmount,
                 cctpFee |-> cctpFee,
                 expectedAmount |-> expectedAmount,
                 protocolFee |-> protocolFee,
                 indexerFee |-> indexerFee,
                 relayerFee |-> relayerFee,
                 totalFees |-> totalFees,
                 amountForAction |-> actionAmount]

\* The reverse calculation without the gross-up for the CCTP fee.
calculateBurnForActionNoCctp(actionAmount, options) ==
    LET indexerFee == OrDefault(options, "indexerFee", DEFAULT_INDEXER_FEE)
        relayerFee == OrDefault(options, "relayerFee", DEFAULT_RELAYER_FEE)
        protocolFeeBps == OrDefault(options, "protocolFeeBps", DEFAULT_PROTOCOL_FEE_BPS)
        cctpFeeBps == OrDefault(options, "cctpFeeBps", DEFAULT_CCTP_FEE_BPS)
        baseNeeded == actionAmount + indexerFee + relayerFee
    IN  IF BPS_DENOMINATOR - protocolFeeBps = 0 THEN DivisionByZero
        ELSE
        LET expectedAmount ==
                BigIntMulDiv(baseNeeded, BPS_DENOMINATOR, BPS_DENOMINATOR - protocolFeeBps)
        IN  IF BPS_DENOMINATOR - cctpFeeBps = 0 THEN DivisionByZero
            ELSE
            LET burnAmount == expectedAmount
                cctpFee == burnAmount - expectedAmount
                protocolFee == BigIntMulDiv(expectedAmount, protocolFeeBps, BPS_DENOMINATOR)
                totalFees == protocolFee + indexerFee + relayerFee
            IN  [burnAmount |-> burnAmount,
                 cctpFee |-> cctpFee,
                 expectedAmount |-> expectedAmount,
                 protocolFee |-> protocolFee,
                 indexerFee |-> indexerFee,
                 relayerFee |-> relayerFee,
                 totalFees |-> totalFees,
                 amountForAction |-> actionAmount]

calculateBurnForAction(actionAmount, options) ==
    LET indexerFee == OrDefault(options, "indexerFee", DEFAULT_INDEXER_FEE)
        relayerFee == OrDefault(options, "relayerFee", DEFAULT_RELAYER_FEE)
        protocolFeeBps == OrDefault(options, "protocolFeeBps", DEFAULT_PROTOCOL_FEE_BPS)
        cctpFeeBps == OrDefault(options, "cctpFeeBps", DEFAULT_CCTP_FEE_BPS)
        baseNeeded == actionAmount + indexerFee + relayerFee
    IN  IF BPS_DENOMINATOR - protocolFeeBps = 0 THEN DivisionByZero
        ELSE
        LET expectedAmount ==
                BigIntMulDiv(baseNeeded, BPS_DENOMINATOR, BPS_DENOMINATOR - protocolFeeBps)
        IN  IF BPS_DENOMINATOR - cctpFeeBps = 0 THEN DivisionByZero
            ELSE
            LET burnAmount ==
                    BigIntMulDiv(expectedAmount, BPS_DENOMINATOR, BPS_DENOMINATOR - cctpFeeBps)
                cctpFee == burnAmount - expectedAmount
                protocolFee == BigIntMulDiv(expectedAmount, protocolFeeBps, BPS_DENOMINATOR)
                totalFees == protocolFee + indexerFee + relayerFee
            IN  [burnAmount |-> burnAmount,
                 cctpFee |-> cctpFee,
                 expectedAmount |-> expectedAmount,
                 protocolFee |-> protocolFee,
                 indexerFee |-> indexerFee,
                 relayerFee |-> relayerFee,
                 totalFees |-> totalFees,
                 amountForAction |-> actionAmount]

Threw(r) == "error" \in DOMAIN r

\* calculateFeesSync(calculateBurnForAction(target, opts).burnAmount, opts):
\* the reverse calculation fed back into the forward one.
ReverseThenForward(target, options) ==
    LET rev == calculateBurnForAction(target, options)
    IN  IF Threw(rev) THEN rev ELSE calculateFeesSync(rev.burnAmount, options)

(***************************************************************************)
(* validateActionFeasibility(burnAmount, actionCost, options)              *)
(***************************************************************************)
\* validateActionFeasibility with the comparison of feasible turned around.
validateActionFeasibilityFlipped(burnAmount, actionCost, options) ==
    LET feesFromBurn == calculateFeesSync(burnAmount, options)
        feesForAction == calculateBurnForAction(actionCost, options)
    IN  IF Threw(feesForAction) THEN feesForAction
        ELSE
        LET feasible == feesFromBurn.amountForAction <= actionCost
            surplus == IF feasible THEN feesFromBurn.amountForAction - actionCost ELSE 0
            shortfall == IF feasible THEN 0 ELSE actionCost - feesFromBurn.amountForAction
        IN  [feasible |-> feasible,
             burnAmount |-> burnAmount,
             amountForAction |-> feesFromBurn.amountForAction,
             actionCost |-> actionCost,
             surplus |-> surplus,
             shortfall |-> shortfall,
             minimumBurn |-> feesForAction.burnAmount,
             message |-> IF feasible THEN "Feasible" ELSE "Insufficient"]

\* The error calculateBurnForAction throws leaves validateActionFeasibility
\* uncaught; message is modelled by which of its two texts it is.
validateActionFeasibility(burnAmount, actionCost, options) ==
    LET feesFromBurn == calculateFeesSync(burnAmount, options)
        feesForAction == calculateBurnForAction(actionCost, options)
    IN  IF Threw(feesForAction) THEN feesForAction
        ELSE
        LET feasible == feesFromBurn.amountForAction >= actionCost
            surplus == IF feasible THEN feesFromBurn.amountForAction - actionCost ELSE 0
            shortfall == IF feasible THEN 0 ELSE actionCost - feesFromBurn.amountForAction
        IN  [feasible |-> feasible,
             burnAmount |-> burnAmount,
             amountForAction |-> feesFromBurn.amountForAction,
             actionCost |-> actionCost,
             surplus |-> surplus,
             shortfall |-> shortfall,
             minimumBurn |-> feesForAction.burnAmount,
             message |-> IF feasible THEN "Feasible" ELSE "Insufficient"]

(***************************************************************************)
(* Inputs of the fee functions                                             *)
(***************************************************************************)
\* Basis-point values: none, the two defaults, and rates large enough to
\* produce a non-zero fee on the small amounts of the grid; 10000 is 100%.
BpsValues == {0, 1, 10, 2500, 5000, 9000, 9999, 10000}

FeeGrid ==
    [amount : 0..MaxAmount,
     options : [indexerFee : 0..MaxFlatFee,
                relayerFee : 0..MaxFlatFee,
                protocolFeeBps : BpsValues,
                cctpFeeBps : BpsValues]]

\* The documented example: 15 USDC with the default flat fees and rates,
\* once with the options spelled out and once with the defaults taken.
FeeExamples ==
    {[amount |-> 15000000,
      options |-> [indexerFee |-> 100000, relayerFee |-> 150000,
                   protocolFeeBps |-> 10, cctpFeeBps |-> 1]],
     [amount |-> 15000000,
      options |-> [cctpFeeBps |-> 1]],
     [amount |-> 10000000,
      options |-> [indexerFee |-> 100000, relayerFee |-> 150000,
                   protocolFeeBps |-> 10, cctpFeeBps |-> 1]]}

FeeInputs == FeeGrid \cup FeeExamples

FeeInit ==
    /\ feeOp = "init"
    /\ feeArgs \in FeeInputs
    /\ feeRes = NoResult
    /\ VaIdle
    /\ TrIdle
    /\ CdIdle
    /\ XIdle
    /\ RetryIdle
    /\ BuilderIdle
    /\ ClientIdle
    /\ OwnerIdle

CallCalculateFeesSync ==
    /\ feeOp = "init"
    /\ feeOp' = "calculateFeesSync"
    /\ feeRes' = calculateFeesSync(feeArgs.amount, feeArgs.options)
    /\ UNCHANGED feeArgs
    /\ FeeFrame

CallCalculateBurnForAction ==
    /\ feeOp = "init"
    /\ feeOp' = "calculateBurnForAction"
    /\ feeRes' = calculateBurnForAction(feeArgs.amount, feeArgs.options)
    /\ UNCHANGED feeArgs
    /\ FeeFrame

CallReverseThenForward ==
    /\ feeOp = "init"
    /\ feeOp' = "reverseThenForward"
    /\ feeRes' = ReverseThenForward(feeArgs.amount, feeArgs.options)
    /\ UNCHANGED feeArgs
    /\ FeeFrame

FeeNext ==
    \/ CallCalculateFeesSync
    \/ CallCalculateBurnForAction
    \/ CallReverseThenForward

SpecFees == FeeInit /\ [][FeeNext]_vars

(***************************************************************************)
(* Calls of validateActionFeasibility                                      *)
(***************************************************************************)
\* Burn amounts against action costs, with rates from none to 100%.
FeasibilityGrid ==
    [amount : 0..MaxAmount,
     actionCost : 0..MaxAmount,
     options : [indexerFee : 0..MaxFlatFee,
                relayerFee : 0..MaxFlatFee,
                protocolFeeBps : {0, 10, 2500, 5000, 10000},
                cctpFeeBps : {0, 1, 5000, 10000}]]

\* The documented example (15 USDC for a 14 USDC purchase, defaults taken)
\* and a cost of 0.749 USDC, for which the reverse division is exact.
FeasibilityExamples ==
    {[amount |-> 15000000, actionCost |-> 14000000, options |-> << >>],
     [amount |-> 999999, actionCost |-> 749000, options |-> [cctpFeeBps |-> 0]],
     [amount |-> 1000000, actionCost |-> 749000, options |-> [cctpFeeBps |-> 0]]}

\* Fee parameters outside their range: a rate above 100% or a negative
\* flat fee.
InvalidFeeInputs ==
    [amount : {0, MaxAmount},
     actionCost : {1},
     options : [indexerFee : {-1, 1},
                relayerFee : {-1, 1},
                protocolFeeBps : {10, 10001, 20000},
                cctpFeeBps : {1, 10001, 20000}]]

FeasibilityInputs == FeasibilityGrid \cup FeasibilityExamples \cup InvalidFeeInputs

FeasibilityInit ==
    /\ feeOp = "init"
    /\ feeArgs \in FeasibilityInputs
    /\ feeRes = NoResult
    /\ VaIdle
    /\ TrIdle
    /\ CdIdle
    /\ XIdle
    /\ RetryIdle
    /\ BuilderIdle
    /\ ClientIdle
    /\ OwnerIdle

CallValidateActionFeasibility ==
    /\ feeOp = "init"
    /\ feeOp' = "validateActionFeasibility"
    /\ feeRes' = validateActionFeasibility(feeArgs.amount, feeArgs.actionCost,
                                            feeArgs.options)
    /\ UNCHANGED feeArgs
    /\ FeeFrame

\* A second call of validateActionFeasibility, burning one unit more for the
\* same action cost and options.
CallValidateActionFeasibilityOneMore ==
    /\ feeOp = "validateActionFeasibility"
    /\ feeOp' = "validateActionFeasibilityOneMore"
    /\ feeArgs' = [feeArgs EXCEPT !.amount = @ + 1]
    /\ feeRes' = validateActionFeasibility(feeArgs.amount + 1, feeArgs.actionCost,
                                            feeArgs.options)
    /\ FeeFrame

FeasibilityNext ==
    \/ CallValidateActionFeasibility
    \/ CallValidateActionFeasibilityOneMore
    \/ CallCalculateFeesSync
    \/ CallCalculateBurnForAction

SpecFeasibility == FeasibilityInit /\ [][FeasibilityNext]_vars

(***************************************************************************)
(* Properties of the fee engine                                            *)
(***************************************************************************)
\* The fee parameters the call used, defaults filled in.
ArgIndexerFee == OrDefault(feeArgs.options, "indexerFee", DEFAULT_INDEXER_FEE)
ArgRelayerFee == OrDefault(feeArgs.options, "relayerFee", DEFAULT_RELAYER_FEE)
ArgProtocolFeeBps == OrDefault(feeArgs.options, "protocolFeeBps", DEFAULT_PROTOCOL_FEE_BPS)
ArgCctpFeeBps == OrDefault(feeArgs.options, "cctpFeeBps", DEFAULT_CCTP_FEE_BPS)

\* floor(a * b / c) and ceil(a * b / c) for a, b >= 0 and c > 0.
FloorMulDiv(a, b, c) == (a \div c) * b + (((a % c) * b) \div c)
CeilMulDiv(a, b, c) ==
    FloorMulDiv(a, b, c) + (IF ((a % c) * b) % c = 0 THEN 0 ELSE 1)

Max(a, b) == IF a >= b THEN a ELSE b

\* C8: for every burnAmount >= 0 and fee parameters in range, calculateFeesSync
\* returns cctpFee = floor(burnAmount * cctpFeeBps / 10000), expectedAmount =
\* burnAmount - cctpFee, protocolFee = floor(expectedAmount * protocolFeeBps /
\* 10000), totalFees = protocolFee + indexerFee + relayerFee and
\* amountForAction = max(0, expectedAmount - totalFees) >= 0; burning
\* 15_000_000 with fees 100_000/150_000 and 10/1 bps gives 1_500,
\* 14_998_500, 14_998, 264_998 and 14_733_502.
C8_ForwardBreakdown ==
    feeOp = "calculateFeesSync" =>
        /\ feeRes.burnAmount = feeArgs.amount
        /\ feeRes.cctpFee = (feeArgs.amount * ArgCctpFeeBps) \div 10000
        /\ feeRes.expectedAmount = feeArgs.amount - feeRes.cctpFee
        /\ feeRes.protocolFee = (feeRes.expectedAmount * ArgProtocolFeeBps) \div 10000
        /\ feeRes.totalFees = feeRes.protocolFee + ArgIndexerFee + ArgRelayerFee
        /\ feeRes.amountForAction = Max(0, feeRes.expectedAmount - feeRes.totalFees)
        /\ feeRes.amountForAction >= 0
        /\ (feeArgs.amount = 15000000 =>
                /\ feeRes.cctpFee = 1500
                /\ feeRes.expectedAmount = 14998500
                /\ feeRes.protocolFee = 14998
                /\ feeRes.totalFees = 264998
                /\ feeRes.amountForAction = 14733502)

\* A forward call whose fees exceed the expected amount (the clamp is what
\* keeps amountForAction at zero), and the documented 15 USDC example.
C8_Witness ==
    /\ feeOp = "calculateFeesSync"
    /\ feeArgs.amount = 3
    /\ feeRes.expectedAmount < feeRes.totalFees
    /\ feeRes.amountForAction = 0

C4_NeverUndershoots ==
    (/\ feeOp = "reverseThenForward"
     /\ ArgProtocolFeeBps \in 0..9999
     /\ ArgCctpFeeBps \in 0..9999) =>
        /\ ~Threw(feeRes)
        /\ feeRes.amountForAction >= feeArgs.amount


\* A reverse-then-forward call with both rates non-zero whose divisions are
\* inexact, and which still yields the target.
C4_Witness ==
    /\ feeOp = "reverseThenForward"
    /\ ArgProtocolFeeBps \in 1..9999
    /\ ArgCctpFeeBps \in 1..9999
    /\ feeArgs.amount > 0
    /\ FloorMulDiv(feeArgs.amount + ArgIndexerFee + ArgRelayerFee,
                    10000, 10000 - ArgProtocolFeeBps)
           < CeilMulDiv(feeArgs.amount + ArgIndexerFee + ArgRelayerFee,
                        10000, 10000 - ArgProtocolFeeBps)
    /\ feeRes.amountForAction >= feeArgs.amount

ZERO_ADDRESS == 0

\* Hex strings are modelled by their byte sequence; '0x' is the empty one.
EmptyHex == << >>

\* validateAction without the reimbursement in the total it checks.
validateActionNoReimbursement(action, allowNoAction, protocolFeeBps, now) ==
    LET isNoAction ==
            \/ Len(action.targets) = 0
            \/ /\ Len(action.targets) = 1
               /\ action.targets[1] = ZERO_ADDRESS
               /\ (Len(action.callDatas) = 0 \/ action.callDatas[1] = EmptyHex)
        protocolFee == BigIntMulDiv(action.expectedAmount, protocolFeeBps, BPS_DENOMINATOR)
        totalFees == action.feeConfig.indexerFee + action.feeConfig.relayerFee + protocolFee
    IN  IF ~isNoAction /\ (Len(action.targets) /= Len(action.callDatas)
                           \/ Len(action.targets) /= Len(action.values))
            THEN "Invalid action: arrays length mismatch"
        ELSE IF ~isNoAction /\ (\E i \in 1..Len(action.targets) :
                                    action.targets[i] = ZERO_ADDRESS)
            THEN "Invalid target address"
        ELSE IF isNoAction /\ ~allowNoAction
            THEN "No-action (simple bridge) not allowed for this operation"
        ELSE IF action.feeConfig.paymentToken = ZERO_ADDRESS
            THEN "Invalid payment token"
        ELSE IF action.nonce <= 0
            THEN "Invalid nonce"
        ELSE IF action.deadline <= now
            THEN "Deadline has passed"
        ELSE IF action.expectedAmount <= 0
            THEN "Invalid expected amount"
        ELSE IF action.expectedAmount < totalFees
            THEN "Insufficient amount for fees"
        ELSE IF Len(action.funding.tokensNeeded) /= Len(action.funding.tokenAmounts)
            THEN "Funding tokens and amounts mismatch"
        ELSE "ok"

\* validateAction rejecting an amount that only just covers the fees.
validateActionInclusive(action, allowNoAction, protocolFeeBps, now) ==
    LET isNoAction ==
            \/ Len(action.targets) = 0
            \/ /\ Len(action.targets) = 1
               /\ action.targets[1] = ZERO_ADDRESS
               /\ (Len(action.callDatas) = 0 \/ action.callDatas[1] = EmptyHex)
        protocolFee == BigIntMulDiv(action.expectedAmount, protocolFeeBps, BPS_DENOMINATOR)
        totalFees == action.feeConfig.indexerFee + action.feeConfig.relayerFee
                        + action.funding.maxReimbursement + protocolFee
    IN  IF ~isNoAction /\ (Len(action.targets) /= Len(action.callDatas)
                           \/ Len(action.targets) /= Len(action.values))
            THEN "Invalid action: arrays length mismatch"
        ELSE IF ~isNoAction /\ (\E i \in 1..Len(action.targets) :
                                    action.targets[i] = ZERO_ADDRESS)
            THEN "Invalid target address"
        ELSE IF isNoAction /\ ~allowNoAction
            THEN "No-action (simple bridge) not allowed for this operation"
        ELSE IF action.feeConfig.paymentToken = ZERO_ADDRESS
            THEN "Invalid payment token"
        ELSE IF action.nonce <= 0
            THEN "Invalid nonce"
        ELSE IF action.deadline <= now
            THEN "Deadline has passed"
        ELSE IF action.expectedAmount <= 0
            THEN "Invalid expected amount"
        ELSE IF action.expectedAmount <= totalFees
            THEN "Insufficient amount for fees"
        ELSE IF Len(action.funding.tokensNeeded) /= Len(action.funding.tokenAmounts)
            THEN "Funding tokens and amounts mismatch"
        ELSE "ok"

\* validateAction(action, allowNoAction, protocolFeeBps): "ok" when it
\* returns, else the message of the Error it throws; now is
\* BigInt(Math.floor(Date.now() / 1000)).
validateAction(action, allowNoAction, protocolFeeBps, now) ==
    LET isNoAction ==
            \/ Len(action.targets) = 0
            \/ /\ Len(action.targets) = 1
               /\ action.targets[1] = ZERO_ADDRESS
               /\ (Len(action.callDatas) = 0 \/ action.callDatas[1] = EmptyHex)
        protocolFee == BigIntMulDiv(action.expectedAmount, protocolFeeBps, BPS_DENOMINATOR)
        totalFees == action.feeConfig.indexerFee + action.feeConfig.relayerFee
                        + action.funding.maxReimbursement + protocolFee
    IN  IF ~isNoAction /\ (Len(action.targets) /= Len(action.callDatas)
                           \/ Len(action.targets) /= Len(action.values))
            THEN "Invalid action: arrays length mismatch"
        ELSE IF ~isNoAction /\ (\E i \in 1..Len(action.targets) :
                                    action.targets[i] = ZERO_ADDRESS)
            THEN "Invalid target address"
        ELSE IF isNoAction /\ ~allowNoAction
            THEN "No-action (simple bridge) not allowed for this operation"
        ELSE IF action.feeConfig.paymentToken = ZERO_ADDRESS
            THEN "Invalid payment token"
        ELSE IF action.nonce <= 0
            THEN "Invalid nonce"
        ELSE IF action.deadline <= now
            THEN "Deadline has passed"
        ELSE IF action.expectedAmount <= 0
            THEN "Invalid expected amount"
        ELSE IF action.expectedAmount < totalFees
            THEN "Insufficient amount for fees"
        ELSE IF Len(action.funding.tokensNeeded) /= Len(action.funding.tokenAmounts)
            THEN "Funding tokens and amounts mismatch"
        ELSE "ok"

\* The figure after 'Shortfall:' in the message of the 'Insufficient amount
\* for fees' error, Number(totalFees - expectedAmount) / 1e6 printed with
\* toFixed(6), read back in units of 1e-6 USDC; "none" when validateAction
\* returns or throws another error.
ReportedShortfall(action, allowNoAction, protocolFeeBps, now) ==
    LET protocolFee == BigIntMulDiv(action.expectedAmount, protocolFeeBps, BPS_DENOMINATOR)
        totalFees == action.feeConfig.indexerFee + action.feeConfig.relayerFee
                        + action.funding.maxReimbursement + protocolFee
    IN  IF validateAction(action, allowNoAction, protocolFeeBps, now)
                = "Insufficient amount for fees"
            THEN totalFees - action.expectedAmount
            ELSE "none"

(***************************************************************************)
(* Inputs of validateAction                                                *)
(***************************************************************************)
SeqsUpTo(S, n) == UNION {[1..k -> S] : k \in 0..n}

Addresses == {ZERO_ADDRESS, 1, 2}
HexValues == {EmptyHex, <<171>>}

\* The clock and the two deadlines around it.
NowSeconds == 1000

CallShapes ==
    [targets : SeqsUpTo({ZERO_ADDRESS, 1}, MaxCalls),
     callDatas : SeqsUpTo(HexValues, MaxCalls),
     values : SeqsUpTo({0}, MaxCalls)]

NoOpCall == [targets |-> <<ZERO_ADDRESS>>, callDatas |-> <<EmptyHex>>, values |-> <<0>>]
OneCall == [targets |-> <<1>>, callDatas |-> <<(<<171>>)>>, values |-> <<0>>]

MkFeeConfig(paymentToken, indexerFee, relayerFee) ==
    [paymentToken |-> paymentToken, indexerFee |-> indexerFee, relayerFee |-> relayerFee]

MkFunding(ethNeeded, tokensNeeded, tokenAmounts, maxReimbursement) ==
    [ethNeeded |-> ethNeeded,
     tokensNeeded |-> tokensNeeded,
     tokenAmounts |-> tokenAmounts,
     maxReimbursement |-> maxReimbursement]

MkAction(shape, nonce, deadline, expectedAmount, feeConfig, permit2Setup, funding) ==
    [targets |-> shape.targets,
     callDatas |-> shape.callDatas,
     values |-> shape.values,
     nonce |-> nonce,
     deadline |-> deadline,
     expectedAmount |-> expectedAmount,
     feeConfig |-> feeConfig,
     permit2Setup |-> permit2Setup,
     funding |-> funding]

\* Every shape of the call arrays and of the funding arrays, every scalar
\* check on either side, with two fee settings (one short, one covered).
StructuralInputs ==
    {[action |-> MkAction(sh, n, d, e, MkFeeConfig(pt, 1, 1), << >>,
                          MkFunding(0, tn, ta, 1)),
      allowNoAction |-> allow, protocolFeeBps |-> 2500, now |-> NowSeconds] :
        sh \in CallShapes, n \in {0, 1}, d \in {NowSeconds, NowSeconds + 1},
        e \in {0, 3, 4}, pt \in {ZERO_ADDRESS, 2},
        tn \in SeqsUpTo({2}, 1), ta \in SeqsUpTo({5}, 1),
        allow \in BOOLEAN}

\* Every amount and fee of the grid on the two well-formed shapes.
FeeCheckInputs ==
    {[action |-> MkAction(sh, 1, NowSeconds + 1, e, MkFeeConfig(2, i, r), << >>,
                          MkFunding(0, << >>, << >>, m)),
      allowNoAction |-> TRUE, protocolFeeBps |-> bps, now |-> NowSeconds] :
        sh \in {NoOpCall, OneCall}, e \in 0..MaxAmount,
        i \in 0..MaxFlatFee, r \in 0..MaxFlatFee, m \in 0..MaxFlatFee,
        bps \in {0, 10, 2500, 5000, 10000}}

ValidateInputs == StructuralInputs \cup FeeCheckInputs

VaInit ==
    /\ vaOp = "init"
    /\ vaArgs \in ValidateInputs
    /\ vaRes = "none"
    /\ vaShortfall = "none"
    /\ FeeIdle
    /\ TrIdle
    /\ CdIdle
    /\ XIdle
    /\ RetryIdle
    /\ BuilderIdle
    /\ ClientIdle
    /\ OwnerIdle

CallValidateAction ==
    /\ vaOp = "init"
    /\ vaOp' = "validateAction"
    /\ vaRes' = validateAction(vaArgs.action, vaArgs.allowNoAction,
                                vaArgs.protocolFeeBps, vaArgs.now)
    /\ vaShortfall' = ReportedShortfall(vaArgs.action, vaArgs.allowNoAction,
                                         vaArgs.protocolFeeBps, vaArgs.now)
    /\ UNCHANGED vaArgs
    /\ VaFrame

\* A second call of validateAction, on the same action with its
\* expectedAmount one unit lower.
CallValidateActionOneLower ==
    /\ vaOp = "validateAction"
    /\ vaArgs.action.expectedAmount > 0
    /\ vaOp' = "validateActionOneLower"
    /\ vaArgs' = [vaArgs EXCEPT !.action.expectedAmount = @ - 1]
    /\ vaRes' = validateAction(vaArgs'.action, vaArgs.allowNoAction,
                                vaArgs.protocolFeeBps, vaArgs.now)
    /\ vaShortfall' = ReportedShortfall(vaArgs'.action, vaArgs.allowNoAction,
                                         vaArgs.protocolFeeBps, vaArgs.now)
    /\ VaFrame

VaNext ==
    \/ CallValidateAction
    \/ CallValidateActionOneLower

SpecValidate == VaInit /\ [][VaNext]_vars

\* C3: validateAction throws whenever action.expectedAmount < indexerFee +
\* relayerFee + funding.maxReimbursement + floor(expectedAmount *
\* protocolFeeBps / 10000): no action whose fees exceed its expectedAmount
\* passes validation.
C3_FeesNeverExceedAmount ==
    (/\ vaOp = "validateAction"
     /\ vaArgs.action.expectedAmount <
            vaArgs.action.feeConfig.indexerFee
            + vaArgs.action.feeConfig.relayerFee
            + vaArgs.action.funding.maxReimbursement
            + ((vaArgs.action.expectedAmount * vaArgs.protocolFeeBps) \div 10000))
        => vaRes /= "ok"

\* An action that passes every other check and is rejected only because the
\* reimbursement pushes the fees above its expectedAmount.
C3_Witness ==
    /\ vaOp = "validateAction"
    /\ vaRes = "Insufficient amount for fees"
    /\ vaArgs.action.funding.maxReimbursement > 0
    /\ vaArgs.action.expectedAmount >=
            vaArgs.action.feeConfig.indexerFee
            + vaArgs.action.feeConfig.relayerFee
            + ((vaArgs.action.expectedAmount * vaArgs.protocolFeeBps) \div 10000)


(***************************************************************************)
(* TransferTracker                                                         *)
(***************************************************************************)
INITIATED == "initiated"
ATTESTED == "attested"
ANNOUNCED == "announced"
MINTED == "minted"
EXECUTED == "executed"
FAILED == "failed"

TransferStatus == {INITIATED, ATTESTED, ANNOUNCED, MINTED, EXECUTED, FAILED}

PollsInFlight == inFlight.attest + inFlight.flowMint + inFlight.flowExec
StartsInProgress ==
    starting.subMint + starting.subExecWithMint + starting.subExecNoMint

\* The callbacks registered with the push channel that are still subscribed.
MintSubs == subs.heldMint + subs.looseMint + starting.subExecWithMint
ExecSubs == subs.heldExec + subs.looseExec

\* The update emitStatus builds, and the two events that carry it.
StatusUpdate(s) == [status |-> s]
StatusEvents(s) ==
    <<[event |-> "statusChange", update |-> StatusUpdate(s)],
      [event |-> s, update |-> StatusUpdate(s)]>>

\* The handler waitForStatus registered on 'statusChange': on its target it
\* clears the timeout, removes itself and resolves the promise (which has no
\* effect on a promise already settled).
Handler(update) ==
    IF waiter.listener /\ update.status = waiter.target
    THEN [waiter EXCEPT !.timer = FALSE,
                        !.listener = FALSE,
                        !.state = IF @ = "pending" THEN "resolved" ELSE @]
    ELSE waiter

\* emitStatus(s) that emits although the status is already s.
EmitStatusAlways(s) ==
    /\ status' = s
    /\ emitted' = StatusEvents(s)
    /\ waiter' = Handler(StatusUpdate(s))

\* emitStatus(s): a duplicate status returns early; any other status is
\* stored and emitted as 'statusChange' and as the status itself.
EmitStatus(s) ==
    IF status = s
    THEN /\ status' = status
         /\ emitted' = << >>
         /\ waiter' = waiter
    ELSE /\ status' = s
         /\ emitted' = StatusEvents(s)
         /\ waiter' = Handler(StatusUpdate(s))

NoEmit ==
    /\ status' = status
    /\ emitted' = << >>
    /\ waiter' = waiter

\* The body of stop(): the flag, the interval handle, the stored cleanup.
StopBody ==
    /\ polling' = FALSE
    /\ pollingInterval' = FALSE
    /\ intervals' = IF pollingInterval THEN intervals - 1 ELSE intervals
    /\ wakuUnsubscribe' = FALSE
    /\ subs' = IF wakuUnsubscribe
               THEN [subs EXCEPT !.heldMint = 0, !.heldExec = 0]
               ELSE subs

NoStop == UNCHANGED <<polling, pollingInterval, intervals, wakuUnsubscribe, subs>>

\* Where checkChainStatus suspends next, given the status it now reads:
\* from its top, after the attestation block, and after the mint block.
AfterMintBlock(st) == IF st = MINTED THEN "flowExec" ELSE "none"
\* The mint block entered from ATTESTED only.
AfterAttestBlockAttestedOnly(st) ==
    IF st = ATTESTED THEN "flowMint" ELSE AfterMintBlock(st)

AfterAttestBlock(st) ==
    IF st \in {ATTESTED, ANNOUNCED} THEN "flowMint" ELSE AfterMintBlock(st)
FromTop(st) == IF st = INITIATED THEN "attest" ELSE AfterAttestBlock(st)

Suspend(f, to) == IF to = "none" THEN f ELSE [f EXCEPT ![to] = @ + 1]
Resume(f, from) == [f EXCEPT ![from] = @ - 1]

\* start(): returns at once on a running tracker; otherwise sets the flag,
\* emits INITIATED, starts the interval, runs checkChainStatus up to its
\* first await and, with the push channel enabled, suspends in
\* startWakuPolling on subscribeMintEvents.
Start ==
    /\ TrFrame
    /\ lastOp' = "start"
    /\ UNCHANGED <<timers, wakuOn>>
    /\ IF polling
       THEN /\ NoEmit
            /\ NoStop
            /\ UNCHANGED <<starting, inFlight, directExec>>
       ELSE /\ PollsInFlight < MaxPolls
            /\ wakuOn => StartsInProgress < MaxStarts
            /\ polling' = TRUE
            /\ EmitStatus(INITIATED)
            /\ pollingInterval' = TRUE
            /\ intervals' = intervals + 1
            /\ inFlight' = Suspend(inFlight, FromTop(INITIATED))
            /\ starting' = IF wakuOn
                           THEN [starting EXCEPT !.subMint = @ + 1]
                           ELSE starting
            /\ directExec' = FALSE
            /\ UNCHANGED <<wakuUnsubscribe, subs>>

\* stop() called by the owner of the tracker.
Stop ==
    /\ TrFrame
    /\ lastOp' = "stop"
    /\ StopBody
    /\ NoEmit
    /\ UNCHANGED <<starting, inFlight, timers, wakuOn, directExec>>

\* The interval fires: checkChainStatus runs up to its first await.
Tick ==
    /\ TrFrame
    /\ intervals > 0
    /\ polling
    /\ FromTop(status) /= "none" => PollsInFlight < MaxPolls
    /\ lastOp' = "tick"
    /\ inFlight' = Suspend(inFlight, FromTop(status))
    /\ NoEmit
    /\ NoStop
    /\ UNCHANGED <<starting, timers, wakuOn, directExec>>

\* What the attestation request can come back with: a complete message with
\* an attestation, a 404, another HTTP error, a pending message, a message in
\* another state, no message at all, or a thrown network error.
AttestationResponses ==
    {"complete", "notFound", "httpError", "pending", "otherStatus", "noMessages",
     "networkError"}

checkAttestationPending(response) == response \in {"complete", "pending"}

\* checkAttestation(): true only for a complete message with an attestation.
checkAttestation(response) == response = "complete"

\* checkAttestation() resolves and checkChainStatus goes on to its next await.
AttestationRead(response) ==
    /\ TrFrame
    /\ inFlight.attest > 0
    /\ lastOp' = IF response = "complete" THEN "attestationRead" ELSE response
    /\ IF checkAttestation(response)
       THEN /\ timers < MaxTimers
            /\ EmitStatus(ATTESTED)
            /\ timers' = timers + 1
       ELSE /\ NoEmit
            /\ timers' = timers
    /\ inFlight' = Suspend(Resume(inFlight, "attest"), AfterAttestBlock(status'))
    /\ NoStop
    /\ UNCHANGED <<starting, wakuOn, directExec>>

\* The values getCCTPFlow() resolves to: null when the read failed, else
\* the flow record (its amount and its executed flag).
FlowReads == {[read |-> FALSE, amount |-> 0, executed |-> FALSE]}
                \cup [read : {TRUE}, amount : {0, 5}, executed : BOOLEAN]

\* getCCTPFlow() of the mint block resolves.
MintFlowRead(flow) ==
    /\ TrFrame
    /\ inFlight.flowMint > 0
    /\ lastOp' = IF flow.read THEN "mintFlowRead" ELSE "mintFlowReadFailed"
    /\ IF flow.read /\ flow.amount > 0
       THEN EmitStatus(MINTED)
       ELSE NoEmit
    /\ inFlight' = Suspend(Resume(inFlight, "flowMint"), AfterMintBlock(status'))
    /\ NoStop
    /\ UNCHANGED <<starting, timers, wakuOn, directExec>>

\* getCCTPFlow() of the execution block resolves.
ExecFlowRead(flow) ==
    /\ TrFrame
    /\ inFlight.flowExec > 0
    /\ lastOp' = IF flow.read THEN "execFlowRead" ELSE "execFlowReadFailed"
    /\ IF flow.read /\ flow.executed
       THEN /\ EmitStatus(EXECUTED)
            /\ StopBody
       ELSE /\ NoEmit
            /\ NoStop
    /\ inFlight' = Resume(inFlight, "flowExec")
    /\ UNCHANGED <<starting, timers, wakuOn, directExec>>

\* The timeout set after ATTESTED fires.
AnnounceTimer ==
    /\ TrFrame
    /\ timers > 0
    /\ lastOp' = "announceTimer"
    /\ timers' = timers - 1
    /\ IF status = ATTESTED THEN EmitStatus(ANNOUNCED) ELSE NoEmit
    /\ NoStop
    /\ UNCHANGED <<starting, inFlight, wakuOn, directExec>>

\* How a subscribe call of the push channel ends: subscribed, resolved
\* with an empty cleanup function (no node, no peers, filter refused), or
\* rejected.
SubscribeOutcomes == {"subscribed", "empty", "rejected"}

\* subscribeMintEvents resolves or rejects; startWakuPolling goes on to
\* subscribeExecutionEvents, or to its catch block.
MintSubscribed(outcome) ==
    /\ TrFrame
    /\ starting.subMint > 0
    /\ lastOp' = "mintSubscribed"
    /\ starting' =
          IF outcome = "subscribed"
          THEN [starting EXCEPT !.subMint = @ - 1, !.subExecWithMint = @ + 1]
          ELSE IF outcome = "empty"
          THEN [starting EXCEPT !.subMint = @ - 1, !.subExecNoMint = @ + 1]
          ELSE [starting EXCEPT !.subMint = @ - 1]
    /\ NoEmit
    /\ NoStop
    /\ UNCHANGED <<inFlight, timers, wakuOn, directExec>>

\* subscribeExecutionEvents resolves or rejects; on success the cleanup
\* function of this pair replaces the stored one (which is not called).
ExecSubscribed(withMint, outcome) ==
    /\ TrFrame
    /\ IF withMint THEN starting.subExecWithMint > 0 ELSE starting.subExecNoMint > 0
    /\ lastOp' = "execSubscribed"
    /\ starting' = IF withMint
                   THEN [starting EXCEPT !.subExecWithMint = @ - 1]
                   ELSE [starting EXCEPT !.subExecNoMint = @ - 1]
    /\ IF outcome = "rejected"
       THEN /\ subs' = IF withMint
                       THEN [subs EXCEPT !.looseMint = @ + 1]
                       ELSE subs
            /\ wakuUnsubscribe' = wakuUnsubscribe
       ELSE /\ subs' = [heldMint |-> IF withMint THEN 1 ELSE 0,
                        heldExec |-> IF outcome = "subscribed" THEN 1 ELSE 0,
                        looseMint |-> subs.looseMint + subs.heldMint,
                        looseExec |-> subs.looseExec + subs.heldExec]
            /\ wakuUnsubscribe' = TRUE
    /\ subs'.looseMint <= MaxLoose
    /\ subs'.looseExec <= MaxLoose
    /\ NoEmit
    /\ UNCHANGED <<polling, pollingInterval, intervals, inFlight, timers,
                   wakuOn, directExec>>

\* A 'minted' push event reaches a subscribed callback; matches says
\* whether it carries the tracker's account and nonce.
MintedEvent(matches) ==
    /\ TrFrame
    /\ MintSubs > 0
    /\ lastOp' = IF matches THEN "mintedEvent" ELSE "otherMintedEvent"
    /\ IF matches THEN EmitStatus(MINTED) ELSE NoEmit
    /\ NoStop
    /\ UNCHANGED <<starting, inFlight, timers, wakuOn, directExec>>

\* An 'executed' push event reaches a subscribed callback; success is the
\* flag of the event.
ExecutedEvent(matches, success) ==
    /\ TrFrame
    /\ ExecSubs > 0
    /\ lastOp' = IF ~matches THEN "otherExecutedEvent"
                 ELSE IF success THEN "executedEvent" ELSE "failedExecutionEvent"
    /\ IF matches /\ success
       THEN /\ EmitStatus(EXECUTED)
            /\ StopBody
            /\ directExec' = (directExec \/ status = INITIATED)
       ELSE /\ NoEmit
            /\ NoStop
            /\ directExec' = directExec
    /\ UNCHANGED <<starting, inFlight, timers, wakuOn>>

TrInit ==
    /\ TrConstructed
    /\ wakuOn \in BOOLEAN
    /\ FeeIdle
    /\ VaIdle
    /\ CdIdle
    /\ XIdle
    /\ RetryIdle
    /\ BuilderIdle
    /\ ClientIdle
    /\ OwnerIdle

TrNext ==
    \/ Start
    \/ Stop
    \/ Tick
    \/ \E r \in AttestationResponses : AttestationRead(r)
    \/ \E f \in FlowReads : MintFlowRead(f)
    \/ \E f \in FlowReads : ExecFlowRead(f)
    \/ AnnounceTimer
    \/ \E o \in SubscribeOutcomes : MintSubscribed(o)
    \/ \E w \in BOOLEAN, o \in SubscribeOutcomes : ExecSubscribed(w, o)
    \/ \E m \in BOOLEAN : MintedEvent(m)
    \/ \E m \in BOOLEAN, ok \in BOOLEAN : ExecutedEvent(m, ok)

SpecTracker == TrInit /\ [][TrNext]_vars

\* waitForStatus(targetStatus, timeout): returns at once when the status is
\* the target; otherwise sets the timeout and registers the handler.
WaitForStatus(targetStatus) ==
    /\ TrFrame
    /\ waiter.state = "none"
    /\ lastOp' = "waitForStatus"
    /\ waiter' = IF status = targetStatus
                 THEN [state |-> "resolved", target |-> targetStatus,
                       timer |-> FALSE, listener |-> FALSE]
                 ELSE [state |-> "pending", target |-> targetStatus,
                       timer |-> TRUE, listener |-> TRUE]
    /\ status' = status
    /\ emitted' = << >>
    /\ NoStop
    /\ UNCHANGED <<starting, inFlight, timers, wakuOn, directExec>>

\* The timeout of waitForStatus fires: the promise is rejected.
WaitTimeout ==
    /\ TrFrame
    /\ waiter.timer
    /\ lastOp' = "waitTimeout"
    /\ waiter' = [waiter EXCEPT !.timer = FALSE,
                                !.state = IF @ = "pending" THEN "rejected" ELSE @]
    /\ status' = status
    /\ emitted' = << >>
    /\ NoStop
    /\ UNCHANGED <<starting, inFlight, timers, wakuOn, directExec>>

\* A tracker without push channel, polled on chain, with one waitForStatus
\* caller.
WaitInit ==
    /\ TrIdle
    /\ FeeIdle
    /\ VaIdle
    /\ CdIdle
    /\ XIdle
    /\ RetryIdle
    /\ BuilderIdle
    /\ ClientIdle
    /\ OwnerIdle

WaitNext ==
    \/ Start
    \/ Stop
    \/ Tick
    \/ \E r \in AttestationResponses : AttestationRead(r)
    \/ \E f \in FlowReads : MintFlowRead(f)
    \/ \E f \in FlowReads : ExecFlowRead(f)
    \/ AnnounceTimer
    \/ \E t \in TransferStatus : WaitForStatus(t)
    \/ WaitTimeout

SpecWait == WaitInit /\ [][WaitNext]_vars


(***************************************************************************)
(* Properties of the tracker                                               *)
(***************************************************************************)
\* The order INITIATED < ATTESTED < ANNOUNCED < MINTED < EXECUTED.
Rank(st) ==
    CASE st = INITIATED -> 0
      [] st = ATTESTED -> 1
      [] st = ANNOUNCED -> 2
      [] st = MINTED -> 3
      [] st = EXECUTED -> 4
      [] OTHER -> 5

\* The status a handler reports when its read or event succeeds.
SignalStatus(op) ==
    CASE op = "attestationRead" -> ATTESTED
      [] op = "announceTimer" -> ANNOUNCED
      [] op = "mintFlowRead" -> MINTED
      [] op = "mintedEvent" -> MINTED
      [] op = "execFlowRead" -> EXECUTED
      [] op = "executedEvent" -> EXECUTED
      [] OTHER -> "none"

\* C1: the status never regresses: under every interleaving of poll ticks,
\* late attestation and flow reads, push minted/executed events and the
\* ANNOUNCED timer, each status change moves strictly forward in the order
\* INITIATED < ATTESTED < ANNOUNCED < MINTED < EXECUTED, and a signal
\* carrying a status older than the current one is ignored and emits no event.
C1_StatusNeverRegresses ==
    [][(lastOp' \notin {"start", "stop"}) =>
          /\ Rank(status') >= Rank(status)
          /\ (/\ SignalStatus(lastOp') /= "none"
              /\ Rank(SignalStatus(lastOp')) < Rank(status))
                 => (status' = status /\ emitted' = << >>)]_vars

\* C2: after stop() and until start() is called again, the status never
\* changes and no status event is emitted, whatever read was in flight,
\* whatever push event is delivered and whatever timer is pending.
C2_StoppedTrackerIsFrozen ==
    [][(~polling /\ lastOp' /= "start") =>
          (status' = status /\ emitted' = << >>)]_vars

\* C5: on a freshly started tracker still in INITIATED, a matching push
\* 'executed' event moves the status directly to EXECUTED and stops all
\* polling, and from then on no further status change is observed, however
\* many poll intervals elapse and whatever earlier reads complete.
C5_DirectExecutionIsFinal ==
    directExec => (status = EXECUTED /\ ~polling /\ intervals = 0)

\* C10: FAILED is reachable from every non-terminal status: a push execution
\* event for the tracker's account and nonce that marks the execution as
\* unsuccessful moves the tracker to FAILED, which is terminal and stops
\* polling.
C10_FailureSignalFails ==
    lastOp = "failedExecutionEvent" => (status = FAILED /\ ~polling)

\* The polls that did not succeed, by what they came back with.
FailedPolls ==
    (AttestationResponses \ {"complete"}) \cup {"mintFlowReadFailed", "execFlowReadFailed"}

\* C11: a poll that does not succeed is a no-op: an attestation response that
\* is a 404, another HTTP error, pending, without messages or a thrown network
\* error, and a failed flow read, each leave the status unchanged, emit no
\* event, never produce FAILED and leave the tracker polling as it was.
C11_FailedPollIsNoOp ==
    [][lastOp' \in FailedPolls =>
          /\ status' = status
          /\ status' # FAILED
          /\ emitted' = << >>
          /\ polling' = polling
          /\ pollingInterval' = pollingInterval
          /\ intervals' = intervals]_vars

\* A running tracker whose attestation request just failed on the network.
C11_Witness ==
    /\ lastOp = "networkError"
    /\ polling
    /\ intervals = 1
    /\ status = INITIATED

\* ---------------------------------------------------------------------------
\* Hook data codec (src/src/cctp/fees.ts, encodeHookData / decodeHookData).
\*
\* Hook data is the ABI encoding of sixteen parameters. It is modelled as the
\* sequence of its 32-byte words, each word a tuple of 32 byte values, laid out
\* as the ABI lays them out: one head slot per parameter (the value of a static
\* parameter, the byte offset of the tail of a dynamic one) followed by the
\* tails. Addresses are the numbers they denote and byte strings are sequences
\* of byte values, so two spellings of one address (checksummed or lower case)
\* are one value here. Numbers stay below 2^31.
\* ---------------------------------------------------------------------------

WordBytes == 32

\* A number (uint8, uint160, uint256, address) as one big-endian word.
Word(n) ==
    [i \in 1..WordBytes |->
        IF i <= WordBytes - 4 THEN 0 ELSE (n \div (256 ^ (WordBytes - i))) % 256]

\* The number a word holds (its low four bytes; the others are zero here).
WordValue(w) ==
    w[WordBytes - 3] * 16777216 + w[WordBytes - 2] * 65536
        + w[WordBytes - 1] * 256 + w[WordBytes]

RECURSIVE Flatten(_)
Flatten(ss) == IF ss = << >> THEN << >> ELSE Head(ss) \o Flatten(Tail(ss))

\* The bytes of b in whole words, zero-padded on the right.
PadBytes(b) ==
    [k \in 1..((Len(b) + WordBytes - 1) \div WordBytes) |->
        [i \in 1..WordBytes |->
            LET j == (k - 1) * WordBytes + i IN IF j <= Len(b) THEN b[j] ELSE 0]]

\* bytes: the length, then the padded data.
EncodeBytes(b) == <<Word(Len(b))>> \o PadBytes(b)

\* address[] and uint256[]: the length, then one word per element.
EncodeArray(a) == <<Word(Len(a))>> \o [i \in 1..Len(a) |-> Word(a[i])]

\* tuple(address token, address spender, uint160 amount)[]: the length, then
\* three words per element.
EncodeTupleArray(ps) ==
    <<Word(Len(ps))>> \o
        Flatten([i \in 1..Len(ps) |->
            <<Word(ps[i].token), Word(ps[i].spender), Word(ps[i].amount)>>])

Static(n) == [dynamic |-> FALSE, words |-> <<Word(n)>>]
Dynamic(ws) == [dynamic |-> TRUE, words |-> ws]

RECURSIVE TailWordsBefore(_, _)
TailWordsBefore(parts, i) ==
    IF i <= 1 THEN 0
    ELSE TailWordsBefore(parts, i - 1)
            + (IF parts[i - 1].dynamic THEN Len(parts[i - 1].words) ELSE 0)

\* A parameter list: the head slots, then the tails of the dynamic parameters.
EncodeParams(parts) ==
    LET n == Len(parts)
        head == [i \in 1..n |->
                    IF parts[i].dynamic
                    THEN Word(WordBytes * (n + TailWordsBefore(parts, i)))
                    ELSE parts[i].words[1]]
        tail == Flatten([i \in 1..n |->
                    IF parts[i].dynamic THEN parts[i].words ELSE << >>])
    IN head \o tail

\* bytes[]: the length, then the elements as a list of dynamic parameters.
EncodeBytesArray(a) ==
    <<Word(Len(a))>> \o EncodeParams([i \in 1..Len(a) |-> Dynamic(EncodeBytes(a[i]))])

HOOK_DATA_VERSION == 2

\* encodeHookData with the deadline written before the nonce.
encodeHookDataDeadlineFirst(action, signature) ==
    EncodeParams(<<
        Dynamic(EncodeArray(action.targets)),
        Dynamic(EncodeArray(action.values)),
        Dynamic(EncodeBytesArray(action.callDatas)),
        Static(action.deadline),
        Static(action.nonce),
        Static(action.expectedAmount),
        Static(action.feeConfig.paymentToken),
        Static(action.feeConfig.indexerFee),
        Static(action.feeConfig.relayerFee),
        Dynamic(EncodeTupleArray(action.permit2Setup)),
        Static(action.funding.ethNeeded),
        Dynamic(EncodeArray(action.funding.tokensNeeded)),
        Dynamic(EncodeArray(action.funding.tokenAmounts)),
        Static(action.funding.maxReimbursement),
        Dynamic(EncodeBytes(signature)),
        Static(HOOK_DATA_VERSION)>>)

encodeHookData(action, signature) ==
    EncodeParams(<<
        Dynamic(EncodeArray(action.targets)),
        Dynamic(EncodeArray(action.values)),
        Dynamic(EncodeBytesArray(action.callDatas)),
        Static(action.nonce),
        Static(action.deadline),
        Static(action.expectedAmount),
        Static(action.feeConfig.paymentToken),
        Static(action.feeConfig.indexerFee),
        Static(action.feeConfig.relayerFee),
        Dynamic(EncodeTupleArray(action.permit2Setup)),
        Static(action.funding.ethNeeded),
        Dynamic(EncodeArray(action.funding.tokensNeeded)),
        Dynamic(EncodeArray(action.funding.tokenAmounts)),
        Static(action.funding.maxReimbursement),
        Dynamic(EncodeBytes(signature)),
        Static(HOOK_DATA_VERSION)>>)

\* The word that starts at a byte offset.
WordAt(data, offset) == data[(offset \div WordBytes) + 1]

DecodeArray(data, at) ==
    [i \in 1..WordValue(WordAt(data, at)) |->
        WordValue(WordAt(data, at + WordBytes * i))]

DecodeBytesPadded(data, at) ==
    [j \in 1..(((WordValue(WordAt(data, at)) + WordBytes - 1) \div WordBytes) * WordBytes) |->
        WordAt(data, at + WordBytes + (j - 1))[((j - 1) % WordBytes) + 1]]

DecodeBytes(data, at) ==
    [j \in 1..WordValue(WordAt(data, at)) |->
        WordAt(data, at + WordBytes + (j - 1))[((j - 1) % WordBytes) + 1]]

DecodeBytesArray(data, at) ==
    LET base == at + WordBytes
    IN [i \in 1..WordValue(WordAt(data, at)) |->
           DecodeBytes(data, base + WordValue(WordAt(data, base + WordBytes * (i - 1))))]

DecodeTupleArray(data, at) ==
    [i \in 1..WordValue(WordAt(data, at)) |->
        [token |-> WordValue(WordAt(data, at + WordBytes * (3 * (i - 1) + 1))),
         spender |-> WordValue(WordAt(data, at + WordBytes * (3 * (i - 1) + 2))),
         amount |-> WordValue(WordAt(data, at + WordBytes * (3 * (i - 1) + 3)))]]

\* decoded[k] of a static parameter, and where the tail of a dynamic one is.
DecodedStatic(data, k) == WordValue(WordAt(data, WordBytes * k))
DecodedTail(data, k) == WordValue(WordAt(data, WordBytes * k))

decodeHookData(hookData) ==
    [targets |-> DecodeArray(hookData, DecodedTail(hookData, 0)),
     values |-> DecodeArray(hookData, DecodedTail(hookData, 1)),
     callDatas |-> DecodeBytesArray(hookData, DecodedTail(hookData, 2)),
     nonce |-> DecodedStatic(hookData, 3),
     deadline |-> DecodedStatic(hookData, 4),
     expectedAmount |-> DecodedStatic(hookData, 5),
     signature |-> DecodeBytes(hookData, DecodedTail(hookData, 14)),
     feeConfig |->
        [paymentToken |-> DecodedStatic(hookData, 6),
         indexerFee |-> DecodedStatic(hookData, 7),
         relayerFee |-> DecodedStatic(hookData, 8)],
     permit2Setup |-> DecodeTupleArray(hookData, DecodedTail(hookData, 9)),
     funding |->
        [ethNeeded |-> DecodedStatic(hookData, 10),
         tokensNeeded |-> DecodeArray(hookData, DecodedTail(hookData, 11)),
         tokenAmounts |-> DecodeArray(hookData, DecodedTail(hookData, 12)),
         maxReimbursement |-> DecodedStatic(hookData, 13)]]

\* Inputs: the single no-op call, one call, two calls (one with call data
\* longer than a word), with and without permit2 entries, funding tokens and
\* fees, under a 65-byte signature and under an empty one.
LongHex == [i \in 1..(WordBytes + 1) |-> i]
Signature65 == [i \in 1..65 |-> (7 * i) % 256]
TwoCalls == [targets |-> <<1, 2>>, callDatas |-> <<LongHex, EmptyHex>>, values |-> <<0, 5>>]

CodecShapes == {NoOpCall, OneCall, TwoCalls}

CodecPermits ==
    {<< >>,
     <<[token |-> 1, spender |-> 2, amount |-> 3]>>,
     <<[token |-> 1, spender |-> 2, amount |-> 3],
       [token |-> 2, spender |-> 1, amount |-> 70000]>>}

CodecFundings ==
    {MkFunding(0, << >>, << >>, 0),
     MkFunding(4, <<1>>, <<9>>, 5),
     MkFunding(0, <<1, 2>>, <<300, 2>>, 100000)}

CodecFees == {MkFeeConfig(ZERO_ADDRESS, 0, 0), MkFeeConfig(2, 100000, 150000)}

CodecInputs ==
    {[action |-> MkAction(sh, n, NowSeconds + 1, 15000000, fc, ps, fu), signature |-> sig] :
        sh \in CodecShapes, n \in {1, NowSeconds + 1, 70000}, fc \in CodecFees,
        ps \in CodecPermits, fu \in CodecFundings, sig \in {EmptyHex, Signature65}}

CdInit ==
    /\ CdIdle
    /\ FeeIdle
    /\ VaIdle
    /\ TrIdle
    /\ XIdle
    /\ RetryIdle
    /\ BuilderIdle
    /\ ClientIdle
    /\ OwnerIdle

CallEncodeHookData ==
    /\ CdFrame
    /\ cdOp = "init"
    /\ \E input \in CodecInputs :
        /\ cdArgs' = input
        /\ cdHook' = encodeHookData(input.action, input.signature)
    /\ cdOp' = "encodeHookData"
    /\ UNCHANGED cdRes

CallDecodeHookData ==
    /\ CdFrame
    /\ cdOp = "encodeHookData"
    /\ cdRes' = decodeHookData(cdHook)
    /\ cdOp' = "decodeHookData"
    /\ UNCHANGED <<cdArgs, cdHook>>

CdNext ==
    \/ CallEncodeHookData
    \/ CallDecodeHookData

SpecCodec == CdInit /\ [][CdNext]_vars

\* C7: decodeHookData(encodeHookData(action, signature)) gives back every
\* field of the action (targets, values, callDatas, nonce, deadline,
\* expectedAmount, feeConfig, permit2Setup, funding) and the signature, for the
\* single no-op call and for lists of several calls alike.
C7_RoundTrip ==
    cdOp = "decodeHookData" =>
        /\ cdRes.targets = cdArgs.action.targets
        /\ cdRes.values = cdArgs.action.values
        /\ cdRes.callDatas = cdArgs.action.callDatas
        /\ cdRes.nonce = cdArgs.action.nonce
        /\ cdRes.deadline = cdArgs.action.deadline
        /\ cdRes.expectedAmount = cdArgs.action.expectedAmount
        /\ cdRes.feeConfig = cdArgs.action.feeConfig
        /\ cdRes.permit2Setup = cdArgs.action.permit2Setup
        /\ cdRes.funding = cdArgs.action.funding
        /\ cdRes.signature = cdArgs.signature

\* A decoded two-call action whose first call data spans two words, with two
\* permit2 entries, two funding tokens and a 65-byte signature.
C7_Witness ==
    /\ cdOp = "decodeHookData"
    /\ Len(cdArgs.action.targets) = 2
    /\ Len(cdArgs.action.callDatas[1]) > WordBytes
    /\ Len(cdArgs.action.permit2Setup) = 2
    /\ Len(cdArgs.action.funding.tokensNeeded) = 2
    /\ cdArgs.action.nonce # cdArgs.action.deadline
    /\ Len(cdArgs.signature) = 65
    /\ Len(cdHook) > 16

\* ---------------------------------------------------------------------------
\* PonsClient.executeCCTPTransfer (src/src/PonsClient.ts) and the asynchronous
\* fee functions and the builder it calls.
\*
\* feeConfigs stands for what fetchCCTPFees returned: a list of
\* [finalityThreshold, minimumFee], empty when the request failed.
\* ---------------------------------------------------------------------------

LowestFinality(feeConfigs) ==
    feeConfigs[CHOOSE i \in 1..Len(feeConfigs) :
        \A j \in 1..Len(feeConfigs) :
            \/ feeConfigs[i].finalityThreshold < feeConfigs[j].finalityThreshold
            \/ /\ feeConfigs[i].finalityThreshold = feeConfigs[j].finalityThreshold
               /\ i <= j]

\* calculateCCTPFee charging nothing when there are no fee configs.
calculateCCTPFeeFreeWhenEmpty(burnAmount, feeConfigs) ==
    IF Len(feeConfigs) = 0 THEN 0
    ELSE IF LowestFinality(feeConfigs).minimumFee = 0 THEN 0
    ELSE BigIntMulDiv(burnAmount, LowestFinality(feeConfigs).minimumFee, BPS_DENOMINATOR)

calculateCCTPFee(burnAmount, feeConfigs) ==
    IF Len(feeConfigs) = 0 THEN BigIntMulDiv(burnAmount, 1, BPS_DENOMINATOR)
    ELSE IF LowestFinality(feeConfigs).minimumFee = 0 THEN 0
    ELSE BigIntMulDiv(burnAmount, LowestFinality(feeConfigs).minimumFee, BPS_DENOMINATOR)

\* fetchCCTPFees(sourceDomain, destDomain, circleApiUrl), by what the request
\* did: fetch threw, the response was not ok, its body did not parse, or it
\* carried a list of fee configs.  Every failure yields the empty list.
fetchCCTPFees(response) ==
    IF response.kind \in {"networkError", "notOk", "jsonError"} THEN << >>
    ELSE response.data

\* calculateFeesForBurn(burnAmount, options) with the response its request to
\* the fee API gets.
calculateFeesForBurn(burnAmount, options, response) ==
    LET indexerFee == OrDefault(options, "indexerFee", DEFAULT_INDEXER_FEE)
        relayerFee == OrDefault(options, "relayerFee", DEFAULT_RELAYER_FEE)
        protocolFeeBps == OrDefault(options, "protocolFeeBps", DEFAULT_PROTOCOL_FEE_BPS)
        feeConfigs == fetchCCTPFees(response)
        cctpFee == calculateCCTPFee(burnAmount, feeConfigs)
        expectedAmount == burnAmount - cctpFee
        protocolFee == BigIntMulDiv(expectedAmount, protocolFeeBps, BPS_DENOMINATOR)
        totalFees == protocolFee + indexerFee + relayerFee
        amountForAction ==
            IF expectedAmount > totalFees THEN expectedAmount - totalFees ELSE 0
    IN  [burnAmount |-> burnAmount,
         cctpFee |-> cctpFee,
         expectedAmount |-> expectedAmount,
         protocolFee |-> protocolFee,
         indexerFee |-> indexerFee,
         relayerFee |-> relayerFee,
         totalFees |-> totalFees,
         amountForAction |-> amountForAction]

getMinimumBurnAmount(targetAmount, feeConfigs) ==
    IF Len(feeConfigs) = 0 \/ feeConfigs[1].minimumFee = 0 THEN targetAmount
    ELSE BigIntMulDiv(targetAmount, BPS_DENOMINATOR,
                      BPS_DENOMINATOR - LowestFinality(feeConfigs).minimumFee)

calculateMinExpectedAmount(indexerFee, relayerFee, reimbursement, amountForAction, protocolFeeBps) ==
    LET baseCost == indexerFee + relayerFee + reimbursement + amountForAction
        c == BPS_DENOMINATOR - protocolFeeBps
    IN  IF protocolFeeBps = 0 THEN baseCost
        \* (baseCost * 10000 + (c - 1)) / c, with baseCost split as in BigIntMulDiv
        ELSE (baseCost \div c) * BPS_DENOMINATOR
                + (((baseCost % c) * BPS_DENOMINATOR + (c - 1)) \div c)

calculateMinBurnAmount(indexerFee, relayerFee, reimbursement, amountForAction, protocolFeeBps, feeConfigs) ==
    getMinimumBurnAmount(
        calculateMinExpectedAmount(indexerFee, relayerFee, reimbursement,
                                   amountForAction, protocolFeeBps),
        feeConfigs)

\* getFeeBreakdown leaving the reimbursement out of the total.
getFeeBreakdownNoReimbursement(burnAmount, indexerFee, relayerFee, reimbursement, protocolFeeBps, feeConfigs) ==
    LET cctpFee == calculateCCTPFee(burnAmount, feeConfigs)
        expectedAmount == burnAmount - cctpFee
        protocolFee == BigIntMulDiv(expectedAmount, protocolFeeBps, BPS_DENOMINATOR)
        totalFees == protocolFee + indexerFee + relayerFee
    IN  [burnAmount |-> burnAmount,
         cctpFee |-> cctpFee,
         expectedAmount |-> expectedAmount,
         protocolFee |-> protocolFee,
         indexerFee |-> indexerFee,
         relayerFee |-> relayerFee,
         reimbursement |-> reimbursement,
         totalFees |-> totalFees,
         amountForAction |-> IF expectedAmount > totalFees
                             THEN expectedAmount - totalFees ELSE 0]

getFeeBreakdown(burnAmount, indexerFee, relayerFee, reimbursement, protocolFeeBps, feeConfigs) ==
    LET cctpFee == calculateCCTPFee(burnAmount, feeConfigs)
        expectedAmount == burnAmount - cctpFee
        protocolFee == BigIntMulDiv(expectedAmount, protocolFeeBps, BPS_DENOMINATOR)
        totalFees == protocolFee + indexerFee + relayerFee + reimbursement
    IN  [burnAmount |-> burnAmount,
         cctpFee |-> cctpFee,
         expectedAmount |-> expectedAmount,
         protocolFee |-> protocolFee,
         indexerFee |-> indexerFee,
         relayerFee |-> relayerFee,
         reimbursement |-> reimbursement,
         totalFees |-> totalFees,
         amountForAction |-> IF expectedAmount > totalFees
                             THEN expectedAmount - totalFees ELSE 0]

validateBurnAmount(burnAmount, indexerFee, relayerFee, reimbursement, protocolFeeBps, feeConfigs) ==
    LET breakdown == getFeeBreakdown(burnAmount, indexerFee, relayerFee,
                                     reimbursement, protocolFeeBps, feeConfigs)
    IN  [sufficient |-> ~(breakdown.expectedAmount < breakdown.totalFees),
         breakdown |-> breakdown]

\* build leaving the arrays of an action without calls empty.
buildKeepingEmpty(isNoAction, calls, feeConfig, permit2Setup, funding, nonce, deadline, expectedAmount) ==
    IF isNoAction \/ Len(calls) = 0
    THEN MkAction([targets |-> << >>, callDatas |-> << >>, values |-> << >>],
                  nonce, deadline, expectedAmount, feeConfig, permit2Setup, funding)
    ELSE IF feeConfig.paymentToken = ZERO_ADDRESS
    THEN [error |-> "ActionBuilder: fees not set"]
    ELSE MkAction([targets |-> [i \in 1..Len(calls) |-> calls[i].target],
                   callDatas |-> [i \in 1..Len(calls) |-> calls[i].callData],
                   values |-> [i \in 1..Len(calls) |-> calls[i].value]],
                  nonce, deadline, expectedAmount, feeConfig, permit2Setup, funding)

\* ActionBuilder.build over the builder's fields: the no-op arrays when the
\* builder holds no call, an error when calls come without a payment token.
build(isNoAction, calls, feeConfig, permit2Setup, funding, nonce, deadline, expectedAmount) ==
    IF isNoAction \/ Len(calls) = 0
    THEN MkAction(NoOpCall, nonce, deadline, expectedAmount, feeConfig, permit2Setup, funding)
    ELSE IF feeConfig.paymentToken = ZERO_ADDRESS
    THEN [error |-> "ActionBuilder: fees not set"]
    ELSE MkAction([targets |-> [i \in 1..Len(calls) |-> calls[i].target],
                   callDatas |-> [i \in 1..Len(calls) |-> calls[i].callData],
                   values |-> [i \in 1..Len(calls) |-> calls[i].value]],
                  nonce, deadline, expectedAmount, feeConfig, permit2Setup, funding)

\* The value undefined, which reading an array past its end gives.
Undefined == -1

\* array[i] in JavaScript, i counted from 1 here.
ElementAt(array, i) == IF i \in 1..Len(array) THEN array[i] ELSE Undefined

\* fromOptions looking at the single target before the batch.
fromOptionsSingleFirst(options, nonce, deadline, expectedAmount) ==
    LET single == "target" \in DOMAIN options
        batch == ~single /\ "targets" \in DOMAIN options /\ Len(options.targets) > 0
        singleNoAction ==
            /\ options.target = ZERO_ADDRESS
            /\ OrDefault(options, "callData", EmptyHex) = EmptyHex
        calls ==
            IF batch
            THEN [i \in 1..Len(options.targets) |->
                    [target |-> options.targets[i],
                     callData |-> IF "callDatas" \in DOMAIN options
                                  THEN ElementAt(options.callDatas, i) ELSE EmptyHex,
                     value |-> IF "values" \in DOMAIN options
                               THEN ElementAt(options.values, i) ELSE 0]]
            ELSE IF single /\ ~singleNoAction
            THEN <<[target |-> options.target,
                    callData |-> OrDefault(options, "callData", EmptyHex),
                    value |-> OrDefault(options, "value", 0)]>>
            ELSE << >>
        withTokens ==
            /\ "funding" \in DOMAIN options
            /\ "tokensNeeded" \in DOMAIN options.funding
            /\ "tokenAmounts" \in DOMAIN options.funding
        funding ==
            IF "funding" \in DOMAIN options
            THEN MkFunding(options.funding.ethNeeded,
                           IF withTokens THEN options.funding.tokensNeeded ELSE << >>,
                           IF withTokens
                           THEN [i \in 1..Len(options.funding.tokensNeeded) |->
                                    ElementAt(options.funding.tokenAmounts, i)]
                           ELSE << >>,
                           options.funding.maxReimbursement)
            ELSE MkFunding(0, << >>, << >>, 0)
    IN  build(~batch /\ ~(single /\ ~singleNoAction), calls, options.feeConfig,
              OrDefault(options, "permit2Setup", << >>), funding,
              nonce, deadline, expectedAmount)

\* ActionBuilder.fromOptions. An optional field of the options is a field the
\* record may lack. The batch format takes its values and call data from the
\* options where given and fills them in otherwise; call data, values and
\* token amounts are read along the targets and the tokens, whatever their
\* own length.
fromOptions(options, nonce, deadline, expectedAmount) ==
    LET batch == "targets" \in DOMAIN options /\ Len(options.targets) > 0
        single == ~batch /\ "target" \in DOMAIN options
        singleNoAction ==
            /\ options.target = ZERO_ADDRESS
            /\ OrDefault(options, "callData", EmptyHex) = EmptyHex
        calls ==
            IF batch
            THEN [i \in 1..Len(options.targets) |->
                    [target |-> options.targets[i],
                     callData |-> IF "callDatas" \in DOMAIN options
                                  THEN ElementAt(options.callDatas, i) ELSE EmptyHex,
                     value |-> IF "values" \in DOMAIN options
                               THEN ElementAt(options.values, i) ELSE 0]]
            ELSE IF single /\ ~singleNoAction
            THEN <<[target |-> options.target,
                    callData |-> OrDefault(options, "callData", EmptyHex),
                    value |-> OrDefault(options, "value", 0)]>>
            ELSE << >>
        withTokens ==
            /\ "funding" \in DOMAIN options
            /\ "tokensNeeded" \in DOMAIN options.funding
            /\ "tokenAmounts" \in DOMAIN options.funding
        funding ==
            IF "funding" \in DOMAIN options
            THEN MkFunding(options.funding.ethNeeded,
                           IF withTokens THEN options.funding.tokensNeeded ELSE << >>,
                           IF withTokens
                           THEN [i \in 1..Len(options.funding.tokensNeeded) |->
                                    ElementAt(options.funding.tokenAmounts, i)]
                           ELSE << >>,
                           options.funding.maxReimbursement)
            ELSE MkFunding(0, << >>, << >>, 0)
    IN  build(~batch /\ ~(single /\ ~singleNoAction), calls, options.feeConfig,
              OrDefault(options, "permit2Setup", << >>), funding,
              nonce, deadline, expectedAmount)

\* The clock: Date.now() in milliseconds, and calculateDeadline.
NowMillis == NowSeconds * 1000
DEADLINE_OFFSET == 86400
calculateDeadline(offsetSeconds) == NowSeconds + offsetSeconds

\* What fetchCCTPFees can return.
FeeConfigLists ==
    {<< >>,
     <<[finalityThreshold |-> 1000, minimumFee |-> 1],
       [finalityThreshold |-> 2000, minimumFee |-> 0]>>,
     <<[finalityThreshold |-> 2000, minimumFee |-> 0],
       [finalityThreshold |-> 1000, minimumFee |-> 1]>>,
     <<[finalityThreshold |-> 1000, minimumFee |-> 0]>>}

\* What the request of fetchCCTPFees can end in.
FetchResponses ==
    {[kind |-> k, data |-> << >>] : k \in {"networkError", "notOk", "jsonError"}}
        \cup {[kind |-> "ok", data |-> d] : d \in FeeConfigLists}

\* Burn amounts large enough for one basis point to show, with the flat fees
\* and the protocol rate given or left to their defaults.
FeeLookupInputs ==
    [amount : {10000 * a : a \in 0..MaxAmount} \cup {15000000},
     options : [indexerFee : 0..MaxFlatFee, protocolFeeBps : {0, 10, 5000}]
                  \cup [relayerFee : 0..MaxFlatFee] \cup {<< >>},
     response : FetchResponses]

FeeLookupInit ==
    /\ feeOp = "init"
    /\ feeArgs \in FeeLookupInputs
    /\ feeRes = NoResult
    /\ VaIdle
    /\ TrIdle
    /\ CdIdle
    /\ XIdle
    /\ RetryIdle
    /\ BuilderIdle
    /\ ClientIdle
    /\ OwnerIdle

CallCalculateFeesForBurn ==
    /\ feeOp = "init"
    /\ feeOp' = "calculateFeesForBurn"
    /\ feeRes' = calculateFeesForBurn(feeArgs.amount, feeArgs.options, feeArgs.response)
    /\ UNCHANGED feeArgs
    /\ FeeFrame

FeeLookupNext ==
    \/ CallCalculateFeesForBurn
    \/ CallCalculateFeesSync

SpecFeeLookup == FeeLookupInit /\ [][FeeLookupNext]_vars

\* The action options callers pass: a plain bridge, the legacy single call, a
\* batch with permit2 and funding, and options the builder or validateAction
\* turn down.
BridgeOptions == [feeConfig |-> MkFeeConfig(2, 100000, 150000)]
FreeBridgeOptions == [feeConfig |-> MkFeeConfig(2, 0, 0)]
SingleCallOptions ==
    [target |-> 1, callData |-> <<171>>, feeConfig |-> MkFeeConfig(2, 100000, 150000)]
BatchOptions ==
    [targets |-> <<1, 2>>,
     callDatas |-> <<LongHex, EmptyHex>>,
     values |-> <<0, 5>>,
     feeConfig |-> MkFeeConfig(2, 100000, 150000),
     permit2Setup |-> <<[token |-> 1, spender |-> 2, amount |-> 3]>>,
     funding |-> [ethNeeded |-> 4, tokensNeeded |-> <<1>>, tokenAmounts |-> <<9>>,
                  maxReimbursement |-> 5]]
NoFeesBatchOptions == [targets |-> <<1>>, feeConfig |-> MkFeeConfig(ZERO_ADDRESS, 0, 0)]
ZeroTargetBatchOptions ==
    [targets |-> <<ZERO_ADDRESS, 1>>, feeConfig |-> MkFeeConfig(2, 100000, 150000)]
NoTokenBridgeOptions == [feeConfig |-> MkFeeConfig(ZERO_ADDRESS, 0, 0)]

ActionOptions ==
    {BridgeOptions, FreeBridgeOptions, SingleCallOptions, BatchOptions,
     NoFeesBatchOptions, ZeroTargetBatchOptions, NoTokenBridgeOptions}

\* CCTPTransferParams: amounts below and above what the fees take, with and
\* without the optional deadline, nonce and protocol fee.
TransferParams ==
    {[action |-> o, amount |-> a] : o \in ActionOptions, a \in {0, 200000, 15000000}}
    \cup {[action |-> o, amount |-> 15000000, deadline |-> NowSeconds] :
            o \in {BridgeOptions, BatchOptions}}
    \cup {[action |-> o, amount |-> 15000000, nonce |-> n, protocolFeeBps |-> 0] :
            o \in {BridgeOptions, BatchOptions}, n \in {0, 7}}

ParamReimbursement(params) ==
    IF "funding" \in DOMAIN params.action
    THEN params.action.funding.maxReimbursement ELSE 0
ParamProtocolFeeBps(params) == OrDefault(params, "protocolFeeBps", DEFAULT_PROTOCOL_FEE_BPS)
ParamDeadline(params) == OrDefault(params, "deadline", calculateDeadline(DEADLINE_OFFSET))
ParamNonce(params) == OrDefault(params, "nonce", NowMillis)

Signatures == {Signature65, [i \in 1..65 |-> (11 * i) % 256]}
Transports == {"gateway", "peer", "rest"}
TX_HASH == 1

\* The order of the steps of executeCCTPTransfer.
Steps ==
    <<"createWalletSigner", "calculateSmartAccountAddress", "validateBurnAmount",
      "fromOptions", "validateAction", "switchToDestination", "signAction",
      "switchToSource", "encodeHookData", "balanceOf", "allowance", "approve",
      "approveReceipt", "depositForBurnWithHook", "burnReceipt", "announceTransfer">>

\* One finished step: whether it succeeded, and the hook data it carried.
Done(step, ok, data) == [step |-> step, ok |-> ok, hookData |-> data]

\* A step finished: its entry goes to the log and the transfer moves on, or
\* the step threw and executeCCTPTransfer rejects with its error.
Proceed(step, next) ==
    /\ xLog' = Append(xLog, Done(step, TRUE, << >>))
    /\ xPc' = next
    /\ UNCHANGED xError

\* A finished step that read a value from the chain or sent one to it: the
\* balance or the allowance read, the amount approved.
DoneWith(step, ok, value) == [step |-> step, ok |-> ok, hookData |-> << >>, value |-> value]

Throw(step, error) ==
    /\ xLog' = Append(xLog, Done(step, FALSE, << >>))
    /\ xPc' = "threw"
    /\ xError' = error

\* executeCCTPTransfer is called: the signer is wrapped, or is of no
\* supported kind.
ExecuteCCTPTransfer(signerOk) ==
    /\ XFrame
    /\ xPc = "idle"
    /\ \E params \in TransferParams : xParams' = params
    /\ IF signerOk
       THEN Proceed("createWalletSigner", "calculateSmartAccountAddress")
       ELSE Throw("createWalletSigner", "Unsupported wallet signer type")
    /\ UNCHANGED <<xEnv, xFees, xMinBurn, xAction, xSignature, xHookData, xReceipt, xResult>>

\* The factory's getAddress read on the destination chain returns or fails.
SmartAccountAddressRead(ok) ==
    /\ XFrame
    /\ xPc = "calculateSmartAccountAddress"
    /\ IF ok
       THEN Proceed("calculateSmartAccountAddress", "validateBurnAmount")
       ELSE Throw("calculateSmartAccountAddress", "Failed to calculate smart account address")
    /\ UNCHANGED <<xEnv, xParams, xFees, xMinBurn, xAction, xSignature, xHookData, xReceipt, xResult>>

\* validateBurnAmount resolves. An insufficient amount leads to the
\* suggestion, and from there to the rejection.
BurnAmountCheck(feeConfigs) ==
    /\ XFrame
    /\ xPc = "validateBurnAmount"
    /\ LET validation ==
            validateBurnAmount(xParams.amount,
                               xParams.action.feeConfig.indexerFee,
                               xParams.action.feeConfig.relayerFee,
                               ParamReimbursement(xParams),
                               ParamProtocolFeeBps(xParams), feeConfigs)
       IN  /\ xFees' = validation.breakdown
           /\ IF validation.sufficient
              THEN Proceed("validateBurnAmount", "fromOptions")
              ELSE /\ xLog' = Append(xLog, Done("validateBurnAmount", FALSE, << >>))
                   /\ xPc' = "calculateMinBurnAmount"
                   /\ UNCHANGED xError
    /\ UNCHANGED <<xEnv, xParams, xMinBurn, xAction, xSignature, xHookData, xReceipt, xResult>>

MinBurnSuggestion(feeConfigs) ==
    /\ XFrame
    /\ xPc = "calculateMinBurnAmount"
    /\ xMinBurn' = calculateMinBurnAmount(xParams.action.feeConfig.indexerFee,
                                          xParams.action.feeConfig.relayerFee,
                                          ParamReimbursement(xParams), 0,
                                          ParamProtocolFeeBps(xParams), feeConfigs)
    /\ xPc' = "threw"
    /\ xError' = "Insufficient amount"
    /\ UNCHANGED <<xEnv, xParams, xFees, xAction, xSignature, xHookData, xReceipt, xLog, xResult>>

\* ActionBuilder.fromOptions with the expected amount of the breakdown.
BuildAction ==
    /\ XFrame
    /\ xPc = "fromOptions"
    /\ LET action == fromOptions(xParams.action, ParamNonce(xParams),
                                 ParamDeadline(xParams), xFees.expectedAmount)
       IN  IF "error" \in DOMAIN action
           THEN Throw("fromOptions", action.error) /\ UNCHANGED xAction
           ELSE Proceed("fromOptions", "validateAction") /\ xAction' = action
    /\ UNCHANGED <<xEnv, xParams, xFees, xMinBurn, xSignature, xHookData, xReceipt, xResult>>

\* validateAction(action, true, protocolFeeBps). In a browser with a wallet
\* the signing is preceded by the switch to the destination chain.
ValidateAction ==
    /\ XFrame
    /\ xPc = "validateAction"
    /\ LET verdict == validateAction(xAction, TRUE, ParamProtocolFeeBps(xParams), NowSeconds)
       IN  IF verdict = "ok"
           THEN Proceed("validateAction",
                        IF xEnv.browser THEN "switchToDestination" ELSE "signAction")
           ELSE Throw("validateAction", verdict)
    /\ UNCHANGED <<xEnv, xParams, xFees, xMinBurn, xAction, xSignature, xHookData, xReceipt, xResult>>

SwitchOutcomes == {"already", "switched", "rejected", "notSwitched"}

\* The wallet is on the destination chain, switches to it, or refuses.
SwitchToDestination(outcome) ==
    /\ XFrame
    /\ xPc = "switchToDestination"
    /\ outcome # "notSwitched"
    /\ IF outcome = "rejected"
       THEN Throw("switchToDestination", "wallet_switchEthereumChain rejected")
       ELSE Proceed("switchToDestination", "signAction")
    /\ UNCHANGED <<xEnv, xParams, xFees, xMinBurn, xAction, xSignature, xHookData, xReceipt, xResult>>

\* signAction: the signer returns a signature or throws.
SignAction(ok, signature) ==
    /\ XFrame
    /\ xPc = "signAction"
    /\ IF ok
       THEN /\ Proceed("signAction",
                       IF xEnv.browser THEN "switchToSource" ELSE "encodeHookData")
            /\ xSignature' = signature
       ELSE Throw("signAction", "Failed to sign action") /\ UNCHANGED xSignature
    /\ UNCHANGED <<xEnv, xParams, xFees, xMinBurn, xAction, xHookData, xReceipt, xResult>>

\* Back to the source chain for approval and burn: already there, switched,
\* refused, or switched without effect.
SwitchToSource(outcome) ==
    /\ XFrame
    /\ xPc = "switchToSource"
    /\ IF outcome = "rejected"
       THEN Throw("switchToSource", "wallet_switchEthereumChain rejected")
       ELSE IF outcome = "notSwitched"
       THEN Throw("switchToSource", "Failed to switch to source chain")
       ELSE Proceed("switchToSource", "encodeHookData")
    /\ UNCHANGED <<xEnv, xParams, xFees, xMinBurn, xAction, xSignature, xHookData, xReceipt, xResult>>

EncodeHookData ==
    /\ XFrame
    /\ xPc = "encodeHookData"
    /\ xHookData' = encodeHookData(xAction, xSignature)
    /\ xLog' = Append(xLog, Done("encodeHookData", TRUE, xHookData'))
    /\ xPc' = "balanceOf"
    /\ UNCHANGED <<xEnv, xParams, xFees, xMinBurn, xAction, xSignature, xReceipt, xError, xResult>>

Balances == {0, 200000, 15000000}

\* The balance read going on to the allowance whatever the balance is.
BalanceReadUnchecked(ok, balance) ==
    /\ XFrame
    /\ xPc = "balanceOf"
    /\ IF ~ok THEN Throw("balanceOf", "Failed to approve USDC")
       ELSE /\ xLog' = Append(xLog, DoneWith("balanceOf", TRUE, balance))
            /\ xPc' = "allowance"
            /\ UNCHANGED xError
    /\ UNCHANGED <<xEnv, xParams, xFees, xMinBurn, xAction, xSignature, xHookData, xReceipt, xResult>>

\* ensureUSDCApproval: the balance read, then the allowance read.
BalanceRead(ok, balance) ==
    /\ XFrame
    /\ xPc = "balanceOf"
    /\ IF ~ok THEN Throw("balanceOf", "Failed to approve USDC")
       ELSE IF balance < xParams.amount
       THEN /\ xLog' = Append(xLog, DoneWith("balanceOf", FALSE, balance))
            /\ xPc' = "threw"
            /\ xError' = "Failed to approve USDC: Insufficient USDC balance"
       ELSE /\ xLog' = Append(xLog, DoneWith("balanceOf", TRUE, balance))
            /\ xPc' = "allowance"
            /\ UNCHANGED xError
    /\ UNCHANGED <<xEnv, xParams, xFees, xMinBurn, xAction, xSignature, xHookData, xReceipt, xResult>>

AllowanceRead(ok, allowance) ==
    /\ XFrame
    /\ xPc = "allowance"
    /\ IF ~ok THEN Throw("allowance", "Failed to approve USDC")
       ELSE /\ xLog' = Append(xLog, DoneWith("allowance", TRUE, allowance))
            /\ xPc' = IF allowance < xParams.amount THEN "approve"
                      ELSE "depositForBurnWithHook"
            /\ UNCHANGED xError
    /\ UNCHANGED <<xEnv, xParams, xFees, xMinBurn, xAction, xSignature, xHookData, xReceipt, xResult>>

\* The approve transaction for the amount is submitted, or the wallet
\* refuses it.
ApproveSubmit(ok) ==
    /\ XFrame
    /\ xPc = "approve"
    /\ xLog' = Append(xLog, DoneWith("approve", ok, xParams.amount))
    /\ xPc' = IF ok THEN "approveReceipt" ELSE "threw"
    /\ xError' = IF ok THEN xError ELSE "Failed to approve USDC"
    /\ UNCHANGED <<xEnv, xParams, xFees, xMinBurn, xAction, xSignature, xHookData, xReceipt, xResult>>

ReceiptOutcomes == {"success", "reverted", "error"}

RevertedNever(receiptStatus) == FALSE

Reverted(receiptStatus) == receiptStatus = "reverted"

ApproveReceipt(receiptStatus) ==
    /\ XFrame
    /\ xPc = "approveReceipt"
    /\ IF receiptStatus = "error" THEN Throw("approveReceipt", "Failed to approve USDC")
       ELSE IF Reverted(receiptStatus)
       THEN Throw("approveReceipt", "Failed to approve USDC: Approval transaction reverted")
       ELSE Proceed("approveReceipt", "depositForBurnWithHook")
    /\ UNCHANGED <<xEnv, xParams, xFees, xMinBurn, xAction, xSignature, xHookData, xReceipt, xResult>>

\* executeCCTPBurn: depositForBurnWithHook is submitted with the hook data,
\* or the wallet refuses it.
BurnSubmit(ok) ==
    /\ XFrame
    /\ xPc = "depositForBurnWithHook"
    /\ xLog' = Append(xLog, Done("depositForBurnWithHook", ok, xHookData))
    /\ xPc' = IF ok THEN "burnReceipt" ELSE "threw"
    /\ xError' = IF ok THEN xError ELSE "Failed to burn USDC"
    /\ UNCHANGED <<xEnv, xParams, xFees, xMinBurn, xAction, xSignature, xHookData, xReceipt, xResult>>

\* The burn receipt. The client always has a transport (gateway, peer or
\* relay) and wakuEnabled is always true, so the announcement follows.
BurnReceipt(receiptStatus) ==
    /\ XFrame
    /\ xPc = "burnReceipt"
    /\ xReceipt' = receiptStatus
    /\ IF receiptStatus = "error" THEN Throw("burnReceipt", "Failed to burn USDC")
       ELSE IF Reverted(receiptStatus)
       THEN Throw("burnReceipt", "Failed to burn USDC: Burn transaction reverted")
       ELSE Proceed("burnReceipt", "announceTransfer")
    /\ UNCHANGED <<xEnv, xParams, xFees, xMinBurn, xAction, xSignature, xHookData, xResult>>

\* announceTransfer publishes over the transport; a failure is logged and
\* swallowed. executeCCTPTransfer returns.
AnnounceTransfer(ok) ==
    /\ XFrame
    /\ xPc = "announceTransfer"
    /\ xLog' = Append(xLog, Done("announceTransfer", ok, xHookData))
    /\ xPc' = "returned"
    /\ xResult' = [txHash |-> TX_HASH,
                   nonce |-> ParamNonce(xParams),
                   expectedAmount |-> xParams.amount,
                   deadline |-> ParamDeadline(xParams)]
    /\ UNCHANGED <<xEnv, xParams, xFees, xMinBurn, xAction, xSignature, xHookData, xReceipt, xError>>

XInit ==
    /\ xPc = "idle"
    /\ xEnv \in [browser : BOOLEAN, transport : Transports]
    /\ xParams = NoResult
    /\ xFees = NoResult
    /\ xMinBurn = 0
    /\ xAction = NoResult
    /\ xSignature = EmptyHex
    /\ xHookData = << >>
    /\ xReceipt = "none"
    /\ xLog = << >>
    /\ xError = ""
    /\ xResult = NoResult
    /\ FeeIdle
    /\ VaIdle
    /\ TrIdle
    /\ CdIdle
    /\ RetryIdle
    /\ BuilderIdle
    /\ ClientIdle
    /\ OwnerIdle

XNext ==
    \/ \E signerOk \in BOOLEAN : ExecuteCCTPTransfer(signerOk)
    \/ \E ok \in BOOLEAN : SmartAccountAddressRead(ok)
    \/ \E feeConfigs \in FeeConfigLists : BurnAmountCheck(feeConfigs)
    \/ \E feeConfigs \in FeeConfigLists : MinBurnSuggestion(feeConfigs)
    \/ BuildAction
    \/ ValidateAction
    \/ \E outcome \in SwitchOutcomes : SwitchToDestination(outcome)
    \/ \E ok \in BOOLEAN, signature \in Signatures : SignAction(ok, signature)
    \/ \E outcome \in SwitchOutcomes : SwitchToSource(outcome)
    \/ EncodeHookData
    \/ \E ok \in BOOLEAN, balance \in Balances : BalanceRead(ok, balance)
    \/ \E ok \in BOOLEAN, allowance \in Balances : AllowanceRead(ok, allowance)
    \/ \E ok \in BOOLEAN : ApproveSubmit(ok)
    \/ \E receiptStatus \in ReceiptOutcomes : ApproveReceipt(receiptStatus)
    \/ \E ok \in BOOLEAN : BurnSubmit(ok)
    \/ \E receiptStatus \in ReceiptOutcomes : BurnReceipt(receiptStatus)
    \/ \E ok \in BOOLEAN : AnnounceTransfer(ok)

SpecTransfer == XInit /\ [][XNext]_vars

StepIndex(step) == CHOOSE i \in 1..Len(Steps) : Steps[i] = step

\* The steps that every later step is preceded by.
MandatorySteps ==
    {"validateBurnAmount", "fromOptions", "validateAction", "signAction",
     "encodeHookData", "balanceOf", "allowance", "depositForBurnWithHook",
     "burnReceipt"}

Succeeded(step, before) ==
    \E j \in 1..(before - 1) : xLog[j].step = step /\ xLog[j].ok

\* C6: the steps of executeCCTPTransfer run in the order burn-amount check,
\* build, validateAction, signature, encodeHookData, approval check, burn,
\* announcement, each one only after the ones before it succeeded; an approve
\* or burn transaction is submitted only for a transfer whose burn-amount
\* check, validateAction and signing succeeded; the burn carries exactly
\* encodeHookData(action, signature) of the validated action; and the
\* announcement comes only after a burn receipt that is not reverted.
C6_StepsInOrder ==
    \A i \in 1..Len(xLog) :
        /\ \A j \in 1..(i - 1) :
            xLog[j].ok /\ StepIndex(xLog[j].step) < StepIndex(xLog[i].step)
        /\ \A step \in MandatorySteps :
            StepIndex(step) < StepIndex(xLog[i].step) => Succeeded(step, i)
        /\ xLog[i].step \in {"approve", "depositForBurnWithHook"} =>
            /\ ~(xFees.expectedAmount < xFees.totalFees)
            /\ validateAction(xAction, TRUE, ParamProtocolFeeBps(xParams), NowSeconds) = "ok"
            /\ Len(xSignature) > 0
        /\ xLog[i].step = "depositForBurnWithHook" =>
            xLog[i].hookData = encodeHookData(xAction, xSignature)
        /\ xLog[i].step = "announceTransfer" => xReceipt = "success"

\* A batch transfer that went all the way: approval transaction, burn with
\* the hook data, receipt, announcement published, result returned.
C6_Witness ==
    /\ xPc = "returned"
    /\ Len(xAction.targets) = 2
    /\ \E i \in 1..Len(xLog) : xLog[i].step = "approve" /\ xLog[i].ok
    /\ \E i \in 1..Len(xLog) : xLog[i].step = "depositForBurnWithHook" /\ xLog[i].ok
    /\ xLog[Len(xLog)] = Done("announceTransfer", TRUE, xHookData)

\* C14: under every interleaving of start() and stop(), also with stop() or
\* another start() arriving while start() still awaits the push subscriptions,
\* the tracker holds at most one active polling interval and at most one
\* active pair of push subscriptions, and holds none of either while it is
\* not running (before the first start() and after stop()).
C14_OneLoopOnePair ==
    /\ intervals <= 1
    /\ MintSubs <= 1
    /\ ExecSubs <= 1
    /\ ~polling => (intervals = 0 /\ MintSubs = 0 /\ ExecSubs = 0)

Settled == waiter.state \in {"resolved", "rejected"}

\* C12: waitForStatus cleans up on both paths: once its promise has resolved
\* (target reached) or rejected (timeout elapsed), the tracker has as many
\* 'statusChange' listeners as before the call and no timer of the call is
\* pending.
C12_WaitCleansUp ==
    Settled => (~waiter.listener /\ ~waiter.timer)

\* C13: a waitForStatus promise settles exactly once, and when the change to
\* the target status and the expiry of the timeout are both due in the same
\* turn, the promise resolves rather than rejects: the step right after a
\* rejecting timeout is never the change to the target.
C13_ResolveWinsTie ==
    [][/\ Settled => waiter'.state = waiter.state
       /\ ~(/\ lastOp = "waitTimeout"
            /\ waiter.state = "rejected"
            /\ status' = waiter.target
            /\ status' # status)]_vars

\* The status is past the target of a caller that is still waiting: the
\* tracker was past it at call time or has jumped over it since.
PastTarget == waiter.state = "pending" /\ Rank(status) > Rank(waiter.target)

\* C39: waitForStatus(target) resolves only on a status change to exactly
\* target: a waiting promise resolves only in a step that changes the status
\* to its target; while the tracker is past the target (already past at call
\* time, or jumped over it) no step resolves the promise; and the expiry of
\* the timeout rejects a promise that is still waiting.
C39_ResolvesOnlyOnExactTarget ==
    [][/\ (waiter.state = "pending" /\ waiter'.state = "resolved")
            => (status' = waiter.target /\ status' # status)
       /\ PastTarget => waiter'.state # "resolved"
       /\ (waiter.state = "pending" /\ lastOp' = "waitTimeout")
            => waiter'.state = "rejected"]_vars


(***************************************************************************)
(* The boundary of the fee check of validateAction                         *)
(***************************************************************************)
\* indexerFee + relayerFee + maxReimbursement + floor(expectedAmount *
\* protocolFeeBps / 10000) of the action of vaArgs with expectedAmount e.
TotalFeesAt(e) ==
    vaArgs.action.feeConfig.indexerFee + vaArgs.action.feeConfig.relayerFee
        + vaArgs.action.funding.maxReimbursement
        + ((e * vaArgs.protocolFeeBps) \div 10000)

\* validateAction was called on an action that passes every other check and
\* whose expectedAmount equals its total fees exactly.
AtBoundary ==
    /\ vaOp = "validateAction"
    /\ vaArgs \in FeeCheckInputs
    /\ vaArgs.action.expectedAmount = TotalFeesAt(vaArgs.action.expectedAmount)

\* C16 as stated: an action whose expectedAmount equals exactly indexerFee +
\* relayerFee + maxReimbursement + floor(expectedAmount * protocolFeeBps /
\* 10000) passes validateAction, and the same action with expectedAmount
\* one unit lower fails with a reported shortfall of exactly 1 unit (read
\* for amounts that stay positive, which the check before this one needs).
C16_BoundaryAsStated ==
    [][(AtBoundary /\ vaArgs.action.expectedAmount > 1) =>
        /\ vaRes = "ok"
        /\ (vaOp' = "validateActionOneLower" =>
                /\ vaRes' = "Insufficient amount for fees"
                /\ vaShortfall' = 1)]_vars

\* C16, amended: with protocolFeeBps in 0..10000, an action with a positive
\* expectedAmount equal to its total fees passes validateAction; the same
\* action one unit lower, when the lower amount is still positive, fails
\* with a reported shortfall of exactly 1 unit if the protocol fee keeps its
\* value, and passes if the protocol fee drops by one unit with it.
C16_Boundary ==
    [][(AtBoundary /\ vaArgs.action.expectedAmount > 0) =>
        /\ vaRes = "ok"
        /\ (vaOp' = "validateActionOneLower" /\ vaArgs'.action.expectedAmount > 0 =>
                IF TotalFeesAt(vaArgs.action.expectedAmount - 1)
                        = TotalFeesAt(vaArgs.action.expectedAmount)
                    THEN /\ vaRes' = "Insufficient amount for fees"
                         /\ vaShortfall' = 1
                    ELSE /\ vaRes' = "ok"
                         /\ vaShortfall' = "none")]_vars

\* The lower call was made from the boundary with a protocol fee in play and
\* failed one unit short.
C16_Witness ==
    /\ vaOp = "validateActionOneLower"
    /\ vaArgs \in FeeCheckInputs
    /\ vaArgs.protocolFeeBps > 0
    /\ vaArgs.action.expectedAmount > 0
    /\ vaArgs.action.expectedAmount + 1 = TotalFeesAt(vaArgs.action.expectedAmount + 1)
    /\ TotalFeesAt(vaArgs.action.expectedAmount + 1) > TotalFeesAt(0)
    /\ vaRes = "Insufficient amount for fees"
    /\ vaShortfall = 1

(***************************************************************************)
(* Properties of validateActionFeasibility                                 *)
(***************************************************************************)
\* The fee options of the call are in range: rates in 0..10000 basis points,
\* flat fees not negative.
ArgsInRange ==
    /\ ArgProtocolFeeBps \in 0..10000
    /\ ArgCctpFeeBps \in 0..10000
    /\ ArgIndexerFee >= 0
    /\ ArgRelayerFee >= 0

\* C17: feasibility is monotonic in the burn amount: for every actionCost
\* and fee options in range, if validateActionFeasibility(B, cost).feasible
\* is true then validateActionFeasibility(B + 1, cost).feasible is true.
C17_FeasibilityMonotonic ==
    [][(/\ feeOp = "validateActionFeasibility"
        /\ feeOp' = "validateActionFeasibilityOneMore"
        /\ ArgsInRange
        /\ ~Threw(feeRes)
        /\ feeRes.feasible)
            => (~Threw(feeRes') /\ feeRes'.feasible)]_vars

\* A burn that is exactly enough (no surplus), with both rates in play, was
\* followed by the call with one unit more, which is feasible too.
C17_Witness ==
    /\ feeOp = "validateActionFeasibilityOneMore"
    /\ ArgsInRange
    /\ ArgProtocolFeeBps > 0
    /\ ArgCctpFeeBps > 0
    /\ feeArgs.actionCost > 0
    /\ ~Threw(feeRes)
    /\ feeRes.feasible
    /\ validateActionFeasibility(feeArgs.amount - 1, feeArgs.actionCost,
                                  feeArgs.options).surplus = 0
    /\ validateActionFeasibility(feeArgs.amount - 1, feeArgs.actionCost,
                                  feeArgs.options).feasible

\* C18: validateActionFeasibility(...).minimumBurn is the minimum burn that
\* works: for the same actionCost and fee options, burning minimumBurn is
\* feasible and burning any smaller amount is not.
C18_MinimumBurnIsMinimal ==
    (/\ feeOp = "validateActionFeasibility"
     /\ ArgsInRange
     /\ ~Threw(feeRes)
     /\ feeArgs.amount >= 0) =>
        /\ (feeArgs.amount = feeRes.minimumBurn => feeRes.feasible)
        /\ (feeArgs.amount < feeRes.minimumBurn => ~feeRes.feasible)

\* C19: validateActionFeasibility never throws: for every burnAmount >= 0,
\* actionCost >= 0 and fee options with basis points in 0..10000 it returns
\* a structured result with feasible, surplus, shortfall and minimumBurn set.
C19_NeverThrows ==
    (/\ feeOp = "validateActionFeasibility"
     /\ ArgsInRange
     /\ feeArgs.amount >= 0
     /\ feeArgs.actionCost >= 0) =>
        /\ ~Threw(feeRes)
        /\ {"feasible", "surplus", "shortfall", "minimumBurn"} \subseteq DOMAIN feeRes

\* The error the fee functions are to reject invalid parameters with.
InvalidFeeParameters(r) == Threw(r) /\ r.error = "InvalidFeeParameters"

\* C20: calculateFeesSync, calculateBurnForAction and
\* validateActionFeasibility reject their input with an
\* invalid-fee-parameters error whenever protocolFeeBps or cctpFeeBps exceeds
\* 10000 or a supplied indexerFee or relayerFee is negative.
C20_InvalidParametersRejected ==
    (/\ feeOp \in {"calculateFeesSync", "calculateBurnForAction",
                    "validateActionFeasibility"}
     /\ \/ ArgProtocolFeeBps > 10000
        \/ ArgCctpFeeBps > 10000
        \/ ArgIndexerFee < 0
        \/ ArgRelayerFee < 0) =>
        InvalidFeeParameters(feeRes)

(***************************************************************************)
(* Properties of calculateFeesForBurn                                      *)
(***************************************************************************)
\* C21: fail-open fee lookup: when the fee-schedule fetch fails (network
\* error or non-OK response), calculateFeesForBurn(burnAmount, opts) does
\* not reject and returns exactly the breakdown that
\* calculateFeesSync(burnAmount, opts) returns with the default cctpFeeBps.
C21_FailOpenLookup ==
    (/\ feeOp = "calculateFeesForBurn"
     /\ feeArgs.response.kind \in {"networkError", "notOk", "jsonError"}) =>
        /\ ~Threw(feeRes)
        /\ feeRes = calculateFeesSync(feeArgs.amount, feeArgs.options)
        /\ feeRes.cctpFee = (feeArgs.amount * DEFAULT_CCTP_FEE_BPS) \div 10000

\* The fetch failed for the documented 15 USDC burn, and the fallback rate
\* charged its 1500 units.
C21_Witness ==
    /\ feeOp = "calculateFeesForBurn"
    /\ feeArgs.response.kind = "notOk"
    /\ feeArgs.amount = 15000000
    /\ feeRes.cctpFee = 1500
    /\ feeRes.amountForAction = 14733502

(***************************************************************************)
(* Properties of the failures of executeCCTPTransfer                       *)
(***************************************************************************)
\* The errors executeCCTPTransfer rejects with when the approval or the burn
\* failed.
ApprovalErrors ==
    {"Failed to approve USDC",
     "Failed to approve USDC: Insufficient USDC balance",
     "Failed to approve USDC: Approval transaction reverted"}

BurnErrors == {"Failed to burn USDC", "Failed to burn USDC: Burn transaction reverted"}

\* The publish of the announcement failed (the transport threw).
AnnouncementFailed ==
    \E i \in 1..Len(xLog) : xLog[i].step = "announceTransfer" /\ ~xLog[i].ok

\* C22: when the burn succeeded but publishing the announcement fails,
\* executeCCTPTransfer reports an announcement failure to its caller,
\* distinguishable from an approval failure and from a burn failure.
C22_AnnouncementFailureReported ==
    AnnouncementFailed =>
        /\ xPc = "threw"
        /\ xError /= ""
        /\ xError \notin ApprovalErrors \cup BurnErrors

(***************************************************************************)
(* The retry loops: WakuRestManager.announceTransfer                       *)
(* (src/polling/TransferTracker.ts), PonsGatewayClient.request             *)
(* (src/gateway/PonsGatewayClient.ts) and retryWithBackoff                 *)
(***************************************************************************)
DEFAULT_MAX_RETRIES == 3
DEFAULT_BASE_DELAY == 1000

Pow2(n) == IF n <= 0 THEN 1 ELSE 2 ^ n

\* The wait after a failed attempt, doubled once too often.
RetryDelayDoubled(baseDelay, attempt) == baseDelay * Pow2(attempt)

\* baseDelay * Math.pow(2, attempt - 1), attempt counted from 1
\* (retryWithBackoff counts i from 0 and waits initialDelay * Math.pow(2, i)).
RetryDelay(baseDelay, attempt) == baseDelay * Pow2(attempt - 1)

\* The three loops and the settings a caller can give them: announceTransfer
\* has its ceiling and base delay fixed, request takes config.retries,
\* retryWithBackoff takes maxRetries and initialDelay.
RetryCalls ==
    {[kind |-> "announceTransfer", options |-> << >>]}
        \cup {[kind |-> "request", options |-> o] :
                   o \in {<< >>} \cup [retries : 0..MaxRetries]}
        \cup {[kind |-> "retryWithBackoff", options |-> o] :
                   o \in {<< >>} \cup [maxRetries : 0..MaxRetries]
                          \cup [maxRetries : 0..MaxRetries, initialDelay : {500, 2000}]}

\* The ceiling and the base delay the loop of a call runs with.
RetryCeiling(call) ==
    IF call.kind = "announceTransfer" THEN DEFAULT_MAX_RETRIES
    ELSE IF call.kind = "request" THEN OrDefault(call.options, "retries", DEFAULT_MAX_RETRIES)
    ELSE OrDefault(call.options, "maxRetries", DEFAULT_MAX_RETRIES)

RetryBase(call) ==
    IF call.kind = "retryWithBackoff"
        THEN OrDefault(call.options, "initialDelay", DEFAULT_BASE_DELAY)
        ELSE DEFAULT_BASE_DELAY

\* The error thrown when the loop made no attempt at all.
NoAttemptError(kind) ==
    IF kind = "request" THEN "Request failed"
    ELSE IF kind = "retryWithBackoff" THEN "Max retries exceeded"
    ELSE "null"

RetryInit ==
    /\ retry = NoRetry
    /\ FeeIdle
    /\ VaIdle
    /\ TrIdle
    /\ CdIdle
    /\ XIdle
    /\ BuilderIdle
    /\ ClientIdle
    /\ OwnerIdle

\* The call is made: the loop enters its first attempt, or, with a ceiling
\* of zero, falls through to the throw after the loop.
RetryStart(call) ==
    /\ retry.pc = "idle"
    /\ retry' = [pc |-> IF RetryCeiling(call) >= 1 THEN "attempt" ELSE "threw",
                 call |-> call,
                 max |-> RetryCeiling(call),
                 base |-> RetryBase(call),
                 attempt |-> 1,
                 log |-> << >>,
                 lastError |-> NoAttemptError(call.kind),
                 error |-> IF RetryCeiling(call) >= 1 THEN "none"
                           ELSE NoAttemptError(call.kind)]
    /\ RetryFrame

\* One attempt settles. A success returns; a failure is kept as lastError
\* and is followed by the wait, or after the last attempt by the throw.
\* The error of attempt k is modelled by k.
RetryAttempt(ok) ==
    /\ retry.pc = "attempt"
    /\ LET entry == [type |-> "attempt", n |-> retry.attempt, ok |-> ok, delay |-> 0]
           wait == [type |-> "wait", n |-> retry.attempt, ok |-> FALSE,
                    delay |-> RetryDelay(retry.base, retry.attempt)]
       IN  IF ok
           THEN retry' = [retry EXCEPT !.pc = "returned", !.log = Append(@, entry)]
           ELSE IF retry.attempt < retry.max
           THEN retry' = [retry EXCEPT !.pc = "wait",
                                       !.lastError = retry.attempt,
                                       !.log = Append(Append(@, entry), wait)]
           ELSE retry' = [retry EXCEPT !.pc = "threw",
                                       !.lastError = retry.attempt,
                                       !.error = retry.attempt,
                                       !.log = Append(@, entry)]
    /\ RetryFrame

\* The timer of the wait fires and the loop goes round.
RetryWaitElapsed ==
    /\ retry.pc = "wait"
    /\ retry' = [retry EXCEPT !.pc = "attempt", !.attempt = @ + 1]
    /\ RetryFrame

RetryNext ==
    \/ \E call \in RetryCalls : RetryStart(call)
    \/ \E ok \in BOOLEAN : RetryAttempt(ok)
    \/ RetryWaitElapsed

SpecRetry == RetryInit /\ [][RetryNext]_vars

\* The call left every setting to its default.
RetryDefaults == retry.call.options = << >>

\* C23: retries are bounded with exponential backoff: an announcement
\* publish, a gateway request and a retryWithBackoff call each make at most 3
\* attempts by default, make no attempt after the first success, wait
\* 1000 * 2^(k-1) ms after the k-th failed attempt (no wait after the last),
\* and after the last failure throw the error of that last attempt.
C23_BoundedBackoff ==
    retry.pc /= "idle" =>
        /\ RetryDefaults => (retry.max = 3 /\ retry.base = 1000)
        /\ \A i \in 1..Len(retry.log) :
              LET e == retry.log[i]
              IN  /\ e.n <= retry.max
                  /\ (e.type = "attempt" /\ e.ok) =>
                        (i = Len(retry.log) /\ retry.pc = "returned")
                  /\ (e.type = "attempt" /\ ~e.ok /\ e.n < retry.max) =>
                        /\ i < Len(retry.log)
                        /\ retry.log[i + 1].type = "wait"
                        /\ retry.log[i + 1].delay = retry.base * (2 ^ (e.n - 1))
                  /\ (e.type = "attempt" /\ ~e.ok /\ e.n = retry.max) =>
                        /\ i = Len(retry.log)
                        /\ retry.pc = "threw"
                        /\ retry.error = e.n
                  /\ e.type = "wait" =>
                        /\ i > 1
                        /\ retry.log[i - 1].type = "attempt"
                        /\ ~retry.log[i - 1].ok
                        /\ retry.log[i - 1].n = e.n
                  /\ (e.type = "attempt" /\ i > 1) =>
                        /\ retry.log[i - 1].type = "wait"
                        /\ retry.log[i - 1].n = e.n - 1
                  /\ (e.type = "attempt" /\ i = 1) => e.n = 1
        /\ retry.pc = "returned" =>
              (Len(retry.log) > 0 /\ retry.log[Len(retry.log)].ok)
        /\ (retry.pc = "threw" /\ retry.max >= 1) =>
              /\ Len(retry.log) = 2 * retry.max - 1
              /\ retry.error = retry.max

\* Each default loop after three failures: waits of 1000 and 2000 ms, then
\* the throw of the third error.
C23_Witness ==
    /\ retry.pc = "threw"
    /\ RetryDefaults
    /\ retry.call.kind = "request"
    /\ Len(retry.log) = 5
    /\ retry.log[2].delay = 1000
    /\ retry.log[4].delay = 2000
    /\ retry.error = 3

(***************************************************************************)
(* Properties of the pre-check of the burn                                 *)
(***************************************************************************)
\* Step number i of the log is the given step.
IsStep(i, step) == xLog[i].step = step

\* C24: the burn transaction is submitted only if the pre-check read showed
\* balance >= amount and either allowance >= amount or an approve
\* transaction for the amount was confirmed with a non-reverted receipt;
\* when the balance is insufficient, neither an approve nor a burn
\* transaction is submitted and the call fails.
C24_BurnOnlyAfterPreCheck ==
    /\ \A b \in 1..Len(xLog) : IsStep(b, "depositForBurnWithHook") =>
            /\ \E i \in 1..(b - 1) :
                    IsStep(i, "balanceOf") /\ xLog[i].value >= xParams.amount
            /\ \/ \E i \in 1..(b - 1) :
                       IsStep(i, "allowance") /\ xLog[i].value >= xParams.amount
               \/ \E i \in 1..(b - 1), j \in 1..(b - 1) :
                       /\ i < j
                       /\ IsStep(i, "approve")
                       /\ xLog[i].ok
                       /\ xLog[i].value = xParams.amount
                       /\ IsStep(j, "approveReceipt")
                       /\ xLog[j].ok
    /\ \A i \in 1..Len(xLog) :
            (IsStep(i, "balanceOf") /\ "value" \in DOMAIN xLog[i]
                /\ xLog[i].value < xParams.amount) =>
                /\ xPc = "threw"
                /\ \A j \in 1..Len(xLog) :
                        xLog[j].step \notin {"approve", "depositForBurnWithHook"}

\* The burn went out after an approval that was needed: the balance covered
\* the amount, the allowance did not, and the approve receipt was a success.
C24_Witness ==
    /\ \E b \in 1..Len(xLog) : IsStep(b, "depositForBurnWithHook") /\ xLog[b].ok
    /\ \E i \in 1..Len(xLog) : IsStep(i, "allowance") /\ xLog[i].value < xParams.amount
    /\ \E i \in 1..Len(xLog) : IsStep(i, "approveReceipt") /\ xLog[i].ok

(***************************************************************************)
(* Properties of the order of validation and network calls                 *)
(***************************************************************************)
\* The steps of executeCCTPTransfer that go to the network: the factory
\* read, the fee-schedule fetch inside validateBurnAmount and
\* calculateMinBurnAmount, the wallet requests and the chain reads and
\* transactions.
NetworkSteps ==
    {"calculateSmartAccountAddress", "validateBurnAmount", "calculateMinBurnAmount",
     "switchToDestination", "signAction", "switchToSource", "balanceOf",
     "allowance", "approve", "approveReceipt", "depositForBurnWithHook",
     "burnReceipt", "announceTransfer"}

\* C25: an action-validation failure is raised before any network call is
\* attempted: executeCCTPTransfer performs no chain read, fee-schedule
\* fetch, wallet request or transaction before validateAction has accepted
\* the action.
C25_ValidationBeforeNetwork ==
    (\E v \in 1..Len(xLog) : IsStep(v, "validateAction") /\ ~xLog[v].ok) =>
        \A i \in 1..Len(xLog) : xLog[i].step \notin NetworkSteps

(***************************************************************************)
(* Properties of the length checks of validateAction                       *)
(***************************************************************************)
\* C26: validateAction rejects every action whose targets, callDatas and
\* values arrays are not all of the same length, and every action whose
\* funding.tokensNeeded and funding.tokenAmounts lengths differ.
C26_MismatchedLengthsRejected ==
    (/\ vaOp = "validateAction"
     /\ \/ Len(vaArgs.action.targets) /= Len(vaArgs.action.callDatas)
        \/ Len(vaArgs.action.targets) /= Len(vaArgs.action.values)
        \/ Len(vaArgs.action.funding.tokensNeeded)
                /= Len(vaArgs.action.funding.tokenAmounts)) =>
        vaRes /= "ok"

(***************************************************************************)
(* The ActionBuilder object (src/src/actions/ActionBuilder.ts)             *)
(*                                                                         *)
(* The builder holds its arrays by reference: ab.heap is the store of the  *)
(* arrays allocated so far and a field such as _permit2Setup is the index  *)
(* of its array in the store.  push changes the array in place, an         *)
(* assignment of [] allocates a new one.  The action build() returns holds *)
(* whatever build() put into it: fresh values, or the same references.     *)
(***************************************************************************)
\* The object a new ActionBuilder() is: empty arrays, zero fees.
NewBuilder ==
    [pc |-> "built0",
     heap |-> << << >>, << >>, << >> >>,
     calls |-> << >>,
     isNoAction |-> FALSE,
     paymentToken |-> ZERO_ADDRESS,
     indexerFee |-> 0,
     relayerFee |-> 0,
     permit2Setup |-> 1,
     ethNeeded |-> 0,
     tokensNeeded |-> 2,
     tokenAmounts |-> 3,
     maxReimbursement |-> 0,
     built |-> NoResult,
     returned |-> NoResult,
     ops |-> 0]

BuilderInit ==
    /\ ab = NoBuilder
    /\ FeeIdle
    /\ VaIdle
    /\ TrIdle
    /\ CdIdle
    /\ XIdle
    /\ RetryIdle
    /\ ClientIdle
    /\ OwnerIdle

Construct ==
    /\ ab.pc = "idle"
    /\ ab' = NewBuilder
    /\ BuilderFrame

\* array.push(x) on the array a reference names.
Push(heap, ref, x) == [heap EXCEPT ![ref] = Append(@, x)]

\* A method of the builder may be called: the caller holds a builder and the
\* bound on the number of calls is not used up.
Callable == ab.pc \in {"built0", "built"} /\ ab.ops < MaxBuilderOps

AddCall(target, callData, value) ==
    /\ Callable
    /\ ab' = [ab EXCEPT !.calls = Append(@, [target |-> target, callData |-> callData,
                                               value |-> value]),
                         !.isNoAction = FALSE,
                         !.ops = @ + 1]
    /\ BuilderFrame

NoAction ==
    /\ Callable
    /\ ab' = [ab EXCEPT !.calls = << >>, !.isNoAction = TRUE, !.ops = @ + 1]
    /\ BuilderFrame

WithFees(paymentToken, indexerFee, relayerFee) ==
    /\ Callable
    /\ ab' = [ab EXCEPT !.paymentToken = paymentToken,
                         !.indexerFee = indexerFee,
                         !.relayerFee = relayerFee,
                         !.ops = @ + 1]
    /\ BuilderFrame

WithPermit2(token, spender, amount) ==
    /\ Callable
    /\ ab' = [ab EXCEPT !.heap = Push(@, ab.permit2Setup,
                                       [token |-> token, spender |-> spender,
                                        amount |-> amount]),
                         !.ops = @ + 1]
    /\ BuilderFrame

\* push(...permits): every permit of the list, in order.
WithPermit2Batch(permits) ==
    /\ Callable
    /\ ab' = [ab EXCEPT !.heap = [@ EXCEPT ![ab.permit2Setup] = @ \o permits],
                         !.ops = @ + 1]
    /\ BuilderFrame

NeedsEth(ethNeeded, reimbursement) ==
    /\ Callable
    /\ ab' = [ab EXCEPT !.ethNeeded = ethNeeded,
                         !.maxReimbursement = @ + reimbursement,
                         !.ops = @ + 1]
    /\ BuilderFrame

NeedsToken(token, amount, reimbursement) ==
    /\ Callable
    /\ ab' = [ab EXCEPT !.heap = Push(Push(@, ab.tokensNeeded, token),
                                       ab.tokenAmounts, amount),
                         !.maxReimbursement = @ + reimbursement,
                         !.ops = @ + 1]
    /\ BuilderFrame

WithReimbursement(maxReimbursement) ==
    /\ Callable
    /\ ab' = [ab EXCEPT !.maxReimbursement = maxReimbursement, !.ops = @ + 1]
    /\ BuilderFrame

\* What the fields of an action hold: for the arrays of the calls their
\* values (build() makes them anew), for permit2Setup, tokensNeeded and
\* tokenAmounts the reference build() copied from the builder.
BuiltAction(nonce, deadline, expectedAmount) ==
    LET noAction == ab.isNoAction \/ Len(ab.calls) = 0
    IN  [targets |-> IF noAction THEN <<ZERO_ADDRESS>>
                     ELSE [i \in 1..Len(ab.calls) |-> ab.calls[i].target],
         callDatas |-> IF noAction THEN <<EmptyHex>>
                       ELSE [i \in 1..Len(ab.calls) |-> ab.calls[i].callData],
         values |-> IF noAction THEN <<0>>
                    ELSE [i \in 1..Len(ab.calls) |-> ab.calls[i].value],
         nonce |-> nonce,
         deadline |-> deadline,
         expectedAmount |-> expectedAmount,
         feeConfig |-> [paymentToken |-> ab.paymentToken,
                        indexerFee |-> ab.indexerFee,
                        relayerFee |-> ab.relayerFee],
         permit2Setup |-> ab.permit2Setup,
         funding |-> [ethNeeded |-> ab.ethNeeded,
                      tokensNeeded |-> ab.tokensNeeded,
                      tokenAmounts |-> ab.tokenAmounts,
                      maxReimbursement |-> ab.maxReimbursement]]

\* The action as its holder reads it: every reference followed into the
\* store.
ReadAction(action, heap) ==
    [action EXCEPT !.permit2Setup = heap[@],
                   !.funding.tokensNeeded = heap[@],
                   !.funding.tokenAmounts = heap[@]]

\* build(nonce, deadline, expectedAmount), called once: it returns the
\* action, or throws when calls were added and the fees were not set.
\* ab.returned keeps what the action read as when build() returned.
Build(nonce, deadline, expectedAmount) ==
    /\ Callable
    /\ ab.pc = "built0"
    /\ IF ~(ab.isNoAction \/ Len(ab.calls) = 0) /\ ab.paymentToken = ZERO_ADDRESS
       THEN ab' = [ab EXCEPT !.ops = @ + 1]
       ELSE ab' = [ab EXCEPT
                     !.pc = "built",
                     !.built = BuiltAction(nonce, deadline, expectedAmount),
                     !.returned = ReadAction(BuiltAction(nonce, deadline, expectedAmount),
                                             ab.heap),
                     !.ops = @ + 1]
    /\ BuilderFrame

\* reset(): every field back to its initial value, the arrays new ones.
Reset ==
    /\ Callable
    /\ ab' = [ab EXCEPT !.calls = << >>,
                         !.isNoAction = FALSE,
                         !.paymentToken = ZERO_ADDRESS,
                         !.indexerFee = 0,
                         !.relayerFee = 0,
                         !.heap = @ \o << << >>, << >>, << >> >>,
                         !.permit2Setup = Len(ab.heap) + 1,
                         !.ethNeeded = 0,
                         !.tokensNeeded = Len(ab.heap) + 2,
                         !.tokenAmounts = Len(ab.heap) + 3,
                         !.maxReimbursement = 0,
                         !.ops = @ + 1]
    /\ BuilderFrame

BuilderPermit == [token |-> 2, spender |-> 1, amount |-> 5]

\* The calls of the options: none, a single target (the zero address or not,
\* with and without call data and value), a batch (empty or not, with and
\* without call data and values, the values as many as the targets or
\* fewer), and a batch next to a single target.
OptionCalls ==
    {<< >>}
        \cup [target : {ZERO_ADDRESS, 1}]
        \cup [target : {ZERO_ADDRESS, 1}, callData : {EmptyHex, <<171>>}]
        \cup [target : {1}, callData : {<<171>>}, value : {0, 7}]
        \cup [targets : {<< >>, <<2>>, <<2, 1>>, <<ZERO_ADDRESS>>}]
        \cup {[targets |-> t, callDatas |-> [i \in 1..Len(t) |-> <<i>>], values |-> v] :
                 t \in {<<2>>, <<2, 1>>}, v \in {<<5>>, <<5, 6>>}}
        \cup [targets : {<< >>, <<2>>, <<2, 1>>}, target : {ZERO_ADDRESS, 1},
              callData : {EmptyHex, <<171>>}, value : {7}]

OptionPermits == {<<p>> : p \in {<< >>, <<BuilderPermit>>,
    <<BuilderPermit, [token |-> 1, spender |-> 2, amount |-> 3]>>}}

OptionAmounts == SeqsUpTo({5, 6}, MaxCalls)

OptionFundings ==
    [ethNeeded : {0, 4},
     tokensNeeded : {<< >>, <<1>>, <<1, 2>>},
     tokenAmounts : OptionAmounts,
     maxReimbursement : {0, 5}]

\* Records put together: the fields of both.
Merge(r1, r2) ==
    [f \in DOMAIN r1 \cup DOMAIN r2 |-> IF f \in DOMAIN r1 THEN r1[f] ELSE r2[f]]

FromOptionsInputs ==
    {Merge(Merge(c, [feeConfig |-> fc]), rest) :
        c \in OptionCalls,
        fc \in {MkFeeConfig(2, 1, 2), MkFeeConfig(ZERO_ADDRESS, 0, 0)},
        rest \in {<< >>}
                 \cup {[permit2Setup |-> p[1]] : p \in OptionPermits}
                 \cup {[funding |-> f] : f \in OptionFundings}
                 \cup {[permit2Setup |-> p[1], funding |-> f] :
                          p \in OptionPermits,
                          f \in {g \in OptionFundings : g.ethNeeded = 4}}}

\* ActionBuilder.fromOptions(options, nonce, deadline, expectedAmount): the
\* static method makes a builder of its own, which the caller never sees, and
\* returns what its build() returns.
StaticFromOptions ==
    /\ ab.pc = "idle"
    /\ \E options \in FromOptionsInputs :
        ab' = [pc |-> "static",
               options |-> options,
               returned |-> fromOptions(options, 1, NowSeconds + DEADLINE_OFFSET, MaxAmount)]
    /\ BuilderFrame

BuilderNext ==
    \/ Construct
    \/ \E target \in {1}, callData \in {<<171>>}, value \in {0, 1} : AddCall(target, callData, value)
    \/ NoAction
    \/ \E paymentToken \in {2} : WithFees(paymentToken, 1, 1)
    \/ WithPermit2(BuilderPermit.token, BuilderPermit.spender, BuilderPermit.amount)
    \/ \E permits \in {<<BuilderPermit, BuilderPermit>>} : WithPermit2Batch(permits)
    \/ NeedsEth(1, 1)
    \/ NeedsToken(2, 5, 1)
    \/ WithReimbursement(2)
    \/ Build(1, NowSeconds + DEADLINE_OFFSET, MaxAmount)
    \/ Reset
    \/ StaticFromOptions

SpecBuilder == BuilderInit /\ [][BuilderNext]_vars

\* C27: an Action is immutable once built: after ActionBuilder.build() has
\* returned, no later call on the same builder (withPermit2,
\* withPermit2Batch, needsToken, needsEth, addCall, withFees, reset) changes
\* any field of the returned action.
C27_BuiltActionImmutable ==
    ab.pc = "built" => ReadAction(ab.built, ab.heap) = ab.returned

(***************************************************************************)
(* Calls of ActionBuilder.fromOptions                                      *)
(***************************************************************************)
FromOptionsInit ==
    /\ vaOp = "init"
    /\ vaArgs \in {[options |-> o, nonce |-> 1, deadline |-> NowSeconds + 1,
                      expectedAmount |-> MaxAmount] : o \in FromOptionsInputs}
    /\ vaRes = "none"
    /\ vaShortfall = "none"
    /\ FeeIdle
    /\ TrIdle
    /\ CdIdle
    /\ XIdle
    /\ RetryIdle
    /\ BuilderIdle
    /\ ClientIdle
    /\ OwnerIdle

CallFromOptions ==
    /\ vaOp = "init"
    /\ vaOp' = "fromOptions"
    /\ vaRes' = fromOptions(vaArgs.options, vaArgs.nonce, vaArgs.deadline,
                             vaArgs.expectedAmount)
    /\ UNCHANGED <<vaArgs, vaShortfall>>
    /\ VaFrame

FromOptionsNext == CallFromOptions

SpecFromOptions == FromOptionsInit /\ [][FromOptionsNext]_vars

\* fromOptions returned an action.
FromOptionsReturned == vaOp = "fromOptions" /\ ~Threw(vaRes)

\* C28: ActionBuilder.fromOptions copies the fee, permit2 and funding
\* sub-structures of the options into the action verbatim: every supplied
\* element of permit2Setup, funding.tokensNeeded and funding.tokenAmounts,
\* and ethNeeded and maxReimbursement, appear unchanged and in order, and
\* absent ones become zero or empty.
C28_CopiedVerbatim ==
    FromOptionsReturned =>
        /\ vaRes.feeConfig = vaArgs.options.feeConfig
        /\ vaRes.permit2Setup = OrDefault(vaArgs.options, "permit2Setup", << >>)
        /\ vaRes.funding = OrDefault(vaArgs.options, "funding", MkFunding(0, << >>, << >>, 0))

\* C29: ActionBuilder.fromOptions resolves the calls by precedence: a
\* non-empty batch (targets array) is used and any single
\* target/callData/value is ignored; otherwise a single target is used;
\* otherwise, or when the single target is the zero address with empty
\* data, the result is the no-op sentinel.
C29_CallPrecedence ==
    FromOptionsReturned =>
        LET o == vaArgs.options
            hasBatch == "targets" \in DOMAIN o /\ o.targets /= << >>
            hasSingle == "target" \in DOMAIN o
            emptyData == "callData" \notin DOMAIN o \/ o.callData = EmptyHex
        IN  IF hasBatch
            THEN /\ vaRes.targets = o.targets
                 /\ Len(vaRes.callDatas) = Len(o.targets)
                 /\ Len(vaRes.values) = Len(o.targets)
                 /\ \A i \in 1..Len(o.targets) :
                        /\ vaRes.callDatas[i] =
                              IF "callDatas" \in DOMAIN o THEN o.callDatas[i] ELSE EmptyHex
                        /\ ("values" \notin DOMAIN o) => vaRes.values[i] = 0
                        /\ ("values" \in DOMAIN o /\ i <= Len(o.values)) =>
                              vaRes.values[i] = o.values[i]
            ELSE IF hasSingle /\ ~(o.target = ZERO_ADDRESS /\ emptyData)
            THEN /\ vaRes.targets = <<o.target>>
                 /\ vaRes.callDatas = <<OrDefault(o, "callData", EmptyHex)>>
                 /\ vaRes.values = <<OrDefault(o, "value", 0)>>
            ELSE /\ vaRes.targets = <<ZERO_ADDRESS>>
                 /\ vaRes.callDatas = <<EmptyHex>>
                 /\ vaRes.values = <<0>>

\* Options with a batch of two and a single target next to it: the action
\* carries the batch.
C29_Witness ==
    /\ FromOptionsReturned
    /\ "target" \in DOMAIN vaArgs.options
    /\ "targets" \in DOMAIN vaArgs.options
    /\ vaArgs.options.target = 1
    /\ vaArgs.options.targets = <<2, 1>>
    /\ vaRes.targets = <<2, 1>>

(***************************************************************************)
(* The order of the fields in the hook data                                *)
(***************************************************************************)
\* The sixteen parameters in the order of the claim, each with the way its
\* slot is read: a number in the slot, or the place of an array, of an array
\* of byte strings, of an array of tuples or of a byte string.
HookFieldKinds ==
    <<"array", "array", "bytesArray", "static", "static", "static", "static",
      "static", "static", "tuples", "static", "array", "array", "static",
      "bytes", "static">>

HookFieldsInOrder(action, signature) ==
    <<action.targets, action.values, action.callDatas, action.nonce,
      action.deadline, action.expectedAmount, action.feeConfig.paymentToken,
      action.feeConfig.indexerFee, action.feeConfig.relayerFee,
      action.permit2Setup, action.funding.ethNeeded,
      action.funding.tokensNeeded, action.funding.tokenAmounts,
      action.funding.maxReimbursement, signature, HOOK_DATA_VERSION>>

\* What the k-th slot of the hook data holds, k counted from 1.
ReadSlot(data, k) ==
    LET w == WordValue(data[k])
        kind == HookFieldKinds[k]
    IN CASE kind = "static" -> w
         [] kind = "array" -> DecodeArray(data, w)
         [] kind = "bytesArray" -> DecodeBytesArray(data, w)
         [] kind = "tuples" -> DecodeTupleArray(data, w)
         [] kind = "bytes" -> DecodeBytes(data, w)

\* C30: encodeHookData serializes the fields in exactly the order targets[],
\* values[], callDatas[], nonce, deadline, expectedAmount, paymentToken,
\* indexerFee, relayerFee, permit2Setup[](token,spender,amount), ethNeeded,
\* tokensNeeded[], tokenAmounts[], maxReimbursement, signature, version, and
\* decodeHookData reads them in the same order: the k-th slot of the encoded
\* data holds the k-th field of that list, and each field of the decoded
\* hook data is what the slot at its place in the list holds.
C30_FieldOrder ==
    /\ cdOp \in {"encodeHookData", "decodeHookData"} =>
          /\ Len(cdHook) >= Len(HookFieldKinds)
          /\ \A k \in 1..Len(HookFieldKinds) :
                ReadSlot(cdHook, k) = HookFieldsInOrder(cdArgs.action, cdArgs.signature)[k]
    /\ cdOp = "decodeHookData" =>
          \A k \in 1..(Len(HookFieldKinds) - 1) :
              HookFieldsInOrder(cdRes, cdRes.signature)[k] = ReadSlot(cdHook, k)

\* Hook data of two calls, two permit2 entries and two funding tokens under
\* a 65-byte signature, with nonce, deadline and expected amount all
\* different, encoded and decoded.
C30_Witness ==
    /\ cdOp = "decodeHookData"
    /\ Len(cdArgs.action.targets) = 2
    /\ Len(cdArgs.action.permit2Setup) = 2
    /\ Len(cdArgs.action.funding.tokensNeeded) = 2
    /\ cdArgs.signature = Signature65
    /\ cdArgs.action.nonce = 70000
    /\ cdArgs.action.nonce /= cdArgs.action.deadline
    /\ cdRes.nonce = 70000
    /\ cdRes.deadline = cdArgs.action.deadline

(***************************************************************************)
(* PonsClient: create, the constructor and trackTransfer                   *)
(***************************************************************************)
MaxClientCalls == 2

ARC_TESTNET_ID == 5042002
SEPOLIA_ID == 11155111
ETHEREUM_ID == 1

\* The factory address bundled for Arc Testnet, and another address a
\* gateway may give.
ARC_FACTORY == 11
OtherFactory == 12

ChainNames == {"arc-testnet", "sepolia", "ethereum"}

arcTestnet == [id |-> ARC_TESTNET_ID, name |-> "Arc Testnet", factory |-> ARC_FACTORY]
sepolia == [id |-> SEPOLIA_ID, name |-> "Sepolia", factory |-> Undefined]
ethereum == [id |-> ETHEREUM_ID, name |-> "Ethereum", factory |-> Undefined]

\* The registry of chains, by name and by chain id.
CHAINS ==
    [k \in ChainNames \cup {ToString(ARC_TESTNET_ID), ToString(SEPOLIA_ID), ToString(ETHEREUM_ID)} |->
        CASE k \in {"arc-testnet", ToString(ARC_TESTNET_ID)} -> arcTestnet
          [] k \in {"sepolia", ToString(SEPOLIA_ID)} -> sepolia
          [] OTHER -> ethereum]

\* getChain over a registry; key is String(chain).
getChain(chains, key) ==
    IF key \in DOMAIN chains THEN chains[key]
    ELSE [error |-> "Unsupported chain"]

isSimpleConfig(config) == "from" \in DOMAIN config /\ "to" \in DOMAIN config

\* PonsClient.resolveConfig: a full config as it is, a simple one from the
\* registry.
resolveConfig(chains, config) ==
    IF ~isSimpleConfig(config) THEN config
    ELSE LET sourceChainConfig == getChain(chains, config.from)
             destChainConfig == getChain(chains, config.to)
         IN IF Threw(sourceChainConfig) THEN sourceChainConfig
            ELSE IF Threw(destChainConfig) THEN destChainConfig
            ELSE [sourceChain |-> sourceChainConfig,
                  destinationChain |-> destChainConfig,
                  factoryAddress |-> OrDefault(config, "factoryAddress", Undefined)]

\* The constructor of PonsClient: the client, or the error it throws.
PonsClient(chains, config) ==
    LET resolvedConfig == resolveConfig(chains, config)
    IN IF Threw(resolvedConfig) THEN resolvedConfig
       ELSE LET destChain == resolvedConfig.destinationChain
                destChainConfig == getChain(chains, ToString(destChain.id))
            IN IF Threw(destChainConfig) THEN destChainConfig
               ELSE LET factoryAddress ==
                            IF OrDefault(resolvedConfig, "factoryAddress", Undefined) /= Undefined
                            THEN resolvedConfig.factoryAddress
                            ELSE destChainConfig.factory
                        useGateway == "ponsPeerAddress" \notin DOMAIN resolvedConfig
                                        /\ "ponsRelayUrl" \notin DOMAIN resolvedConfig
                        useWakuPeer == "ponsPeerAddress" \in DOMAIN resolvedConfig
                    IN IF factoryAddress = Undefined
                       THEN [error |-> "No factory deployed"]
                       ELSE [factoryAddress |-> factoryAddress,
                             destinationChain |-> destChain,
                             useGateway |-> useGateway,
                             useWakuPeer |-> useWakuPeer,
                             wakuEnabled |-> TRUE,
                             gatewayClient |-> useGateway,
                             wakuManager |-> ~useGateway /\ useWakuPeer,
                             wakuRestManager |-> ~useGateway /\ ~useWakuPeer]

\* The registry after PonsClient.create, and what create returns or rejects
\* with. response.ok is FALSE when gateway.getConfig() rejected.
CreateChains(chains, config, response) ==
    IF ~response.ok
           \/ config.from \notin DOMAIN response.chains
           \/ config.to \notin DOMAIN response.chains
           \/ response.chains[config.to].factory = Undefined
    THEN chains
    ELSE [k \in DOMAIN chains |->
            IF k = config.to THEN response.chains[config.to]
            ELSE IF k = config.from THEN response.chains[config.from]
            ELSE chains[k]]

create(chains, config, response) ==
    IF ~response.ok THEN PonsClient(chains, config)
    ELSE IF config.from \notin DOMAIN response.chains
    THEN [error |-> "Source chain not found"]
    ELSE IF config.to \notin DOMAIN response.chains
    THEN [error |-> "Destination chain not found"]
    ELSE IF response.chains[config.to].factory = Undefined
    THEN [error |-> "No factory deployed"]
    ELSE PonsClient(CreateChains(chains, config, response), config)

\* The chain configs a gateway gives: a chain under its id, with the bundled
\* factory, another, or none. A response names both chains or sepolia only.
GatewayChainConfigs ==
    [id : {ARC_TESTNET_ID, SEPOLIA_ID}, name : {"Gateway chain"},
     factory : {ARC_FACTORY, OtherFactory, Undefined}]

GatewayResponses ==
    {[ok |-> FALSE]}
        \cup {[ok |-> TRUE, chains |-> [n \in {"sepolia"} |-> c]] :
                 c \in {g \in GatewayChainConfigs : g.id = SEPOLIA_ID}}
        \cup {[ok |-> TRUE, chains |-> [n \in {"arc-testnet", "sepolia"} |->
                    IF n = "arc-testnet" THEN a ELSE b]] :
                 a \in {c \in GatewayChainConfigs : c.id = ARC_TESTNET_ID},
                 b \in {c \in GatewayChainConfigs : c.id = SEPOLIA_ID}}

CreateConfigs == [from : {"sepolia", "arc-testnet"}, to : {"arc-testnet", "sepolia"}]

\* Configs handed to the constructor: simple ones, and full ones in each of
\* the three transport modes.
FullConfigs ==
    LET base == [sourceChain |-> sepolia, destinationChain |-> arcTestnet]
    IN {base,
        Merge(base, [ponsPeerAddress |-> "peer"]),
        Merge(base, [ponsRelayUrl |-> "relay"]),
        Merge(base, [ponsPeerAddress |-> "peer", ponsRelayUrl |-> "relay"]),
        Merge(base, [factoryAddress |-> OtherFactory])}

ClientInit ==
    /\ cl = [pc |-> "ready", chains |-> CHAINS, calls |-> 0, op |-> "none",
             config |-> << >>, response |-> << >>, client |-> << >>,
             tracker |-> << >>]
    /\ FeeIdle
    /\ VaIdle
    /\ TrIdle
    /\ CdIdle
    /\ XIdle
    /\ RetryIdle
    /\ BuilderIdle
    /\ OwnerIdle

ClientCallable == cl.pc = "ready" /\ cl.calls < MaxClientCalls

\* await PonsClient.create(config), the gateway answering with response.
Create ==
    /\ ClientCallable
    /\ \E config \in CreateConfigs, response \in GatewayResponses :
       cl' = [cl EXCEPT !.chains = CreateChains(cl.chains, config, response),
                        !.calls = @ + 1,
                        !.op = "create",
                        !.config = config,
                        !.response = response,
                        !.client = create(cl.chains, config, response),
                        !.tracker = << >>]
    /\ ClientFrame

\* new PonsClient(config).
NewPonsClient ==
    /\ ClientCallable
    /\ \E config \in CreateConfigs \cup FullConfigs :
       cl' = [cl EXCEPT !.calls = @ + 1,
                        !.op = "new",
                        !.config = config,
                        !.response = << >>,
                        !.client = PonsClient(cl.chains, config),
                        !.tracker = << >>]
    /\ ClientFrame

\* client.trackTransfer(...): the tracker is constructed over the client's
\* wakuManager and started; start() subscribes to the push events when
\* enableWakuPolling && wakuManager.
TrackTransfer ==
    /\ cl.pc = "ready"
    /\ cl.op \in {"create", "new"}
    /\ ~Threw(cl.client)
    /\ cl' = [cl EXCEPT !.op = "trackTransfer",
                        !.tracker = [wakuManager |-> cl.client.wakuManager,
                                     enableWakuPolling |-> cl.client.wakuEnabled,
                                     polling |-> TRUE,
                                     subscribed |-> cl.client.wakuEnabled
                                                      /\ cl.client.wakuManager]]
    /\ ClientFrame

ClientNext ==
    \/ Create
    \/ NewPonsClient
    \/ TrackTransfer

SpecClient == ClientInit /\ [][ClientNext]_vars

\* C31: A client returned by PonsClient.create uses the factory address
\* that the gateway configuration gives for the destination chain, whenever
\* that configuration was fetched successfully.
C31_GatewayFactoryUsed ==
    (cl.pc = "ready" /\ cl.op = "create" /\ cl.response.ok /\ ~Threw(cl.client)) =>
        cl.client.factoryAddress = cl.response.chains[cl.config.to].factory

\* C33: A tracker returned by PonsClient.trackTransfer receives push
\* 'minted' and 'executed' events from the client's announcement channel in
\* every transport mode (gateway, peer, REST relay): once trackTransfer has
\* started the tracker, the tracker holds the push subscriptions.
C33_PushEventsInEveryMode ==
    (cl.pc = "ready" /\ cl.op = "trackTransfer") => cl.tracker.subscribed

(***************************************************************************)
(* Poll ticks of the tracker                                               *)
(***************************************************************************)
\* C32: Chain-poll ticks are serialized: each poll tick runs to completion
\* before the next one starts, so at most one checkChainStatus execution of
\* a tracker is in progress at any time.
C32_TicksSerialized == PollsInFlight <= 1

(***************************************************************************)
(* The fee guards of a transfer: calculateMinBurnAmount,                   *)
(* validateBurnAmount and the fee check of validateAction                  *)
(***************************************************************************)
\* Burn amounts around the small flat fees and around the default ones, the
\* action options with and without funding, the protocol rate given or left
\* to its default, and the fee schedules (the empty one after a failed
\* fetch).
GuardActions ==
    {[feeConfig |-> MkFeeConfig(2, i, r)] :
        i \in (0..MaxFlatFee) \cup {100000}, r \in {0, 1, 150000}}
    \cup {[feeConfig |-> MkFeeConfig(2, i, 1), funding |-> MkFunding(0, << >>, << >>, m)] :
        i \in {0, 1, 100000}, m \in {0, 1, 50000}}

GuardInputs ==
    {[amount |-> a, action |-> o, feeConfigs |-> fc] :
        a \in (0..MaxAmount) \cup {100000, 250000, 250025, 250250, 15000000},
        o \in GuardActions, fc \in FeeConfigLists}
    \cup {[amount |-> a, action |-> o, feeConfigs |-> fc, protocolFeeBps |-> b] :
        a \in (0..MaxAmount) \cup {250000, 333334, 15000000},
        o \in GuardActions, fc \in FeeConfigLists, b \in {0, 2500}}

GuardInit ==
    /\ feeOp = "init"
    /\ feeArgs \in GuardInputs
    /\ feeRes = NoResult
    /\ VaIdle
    /\ TrIdle
    /\ CdIdle
    /\ XIdle
    /\ RetryIdle
    /\ BuilderIdle
    /\ ClientIdle
    /\ OwnerIdle

\* calculateMinBurnAmount(indexerFee, relayerFee, reimbursement, 0n,
\* protocolFeeBps, ...) as executeCCTPTransfer calls it.
CallCalculateMinBurnAmount ==
    /\ feeOp = "init"
    /\ feeOp' = "calculateMinBurnAmount"
    /\ feeRes' = [burnAmount |->
                    calculateMinBurnAmount(feeArgs.action.feeConfig.indexerFee,
                                           feeArgs.action.feeConfig.relayerFee,
                                           ParamReimbursement(feeArgs), 0,
                                           ParamProtocolFeeBps(feeArgs),
                                           feeArgs.feeConfigs)]
    /\ UNCHANGED feeArgs
    /\ FeeFrame

\* validateBurnAmount of the amount of the call, or of the amount
\* calculateMinBurnAmount returned, with the same fees and fee schedule.
CallValidateBurnAmount ==
    /\ feeOp \in {"init", "calculateMinBurnAmount"}
    /\ feeOp' = "validateBurnAmount"
    /\ LET burnAmount == IF feeOp = "init" THEN feeArgs.amount ELSE feeRes.burnAmount
           validation == validateBurnAmount(burnAmount,
                                            feeArgs.action.feeConfig.indexerFee,
                                            feeArgs.action.feeConfig.relayerFee,
                                            ParamReimbursement(feeArgs),
                                            ParamProtocolFeeBps(feeArgs),
                                            feeArgs.feeConfigs)
       IN feeRes' = [sufficient |-> validation.sufficient,
                     breakdown |-> validation.breakdown,
                     ofMinBurn |-> feeOp = "calculateMinBurnAmount"]
    /\ UNCHANGED feeArgs
    /\ FeeFrame

\* After a sufficient validation: ActionBuilder.fromOptions with the expected
\* amount of the breakdown, then validateAction(action, true, protocolFeeBps).
CallValidateBuiltAction ==
    /\ feeOp = "validateBurnAmount"
    /\ feeRes.sufficient
    /\ feeOp' = "validateAction"
    /\ LET action == fromOptions(feeArgs.action, 1, NowSeconds + 1,
                                 feeRes.breakdown.expectedAmount)
       IN feeRes' = [action |-> action,
                     breakdown |-> feeRes.breakdown,
                     verdict |-> validateAction(action, TRUE,
                                                ParamProtocolFeeBps(feeArgs), NowSeconds)]
    /\ UNCHANGED feeArgs
    /\ FeeFrame

GuardNext ==
    \/ CallCalculateMinBurnAmount
    \/ CallValidateBurnAmount
    \/ CallValidateBuiltAction

SpecGuards == GuardInit /\ [][GuardNext]_vars

\* C34: For every fee-schedule response (including the empty schedule
\* returned after a failed fetch), burning the amount returned by
\* calculateMinBurnAmount(indexerFee, relayerFee, reimbursement, 0,
\* protocolFeeBps, ...) covers all fees: validateBurnAmount with the same
\* fees and the same schedule reports sufficient = true for it.
C34_MinBurnCoversFees ==
    (feeOp = "validateBurnAmount" /\ feeRes.ofMinBurn) => feeRes.sufficient

\* C37: The two fee guards in executeCCTPTransfer agree: whenever
\* validateBurnAmount reports sufficient for the burn amount, the action
\* then built with expectedAmount = breakdown.expectedAmount passes the
\* fee-coverage check of validateAction, so validateAction never throws
\* 'Insufficient amount for fees' at that point.
C37_FeeGuardsAgree ==
    feeOp = "validateAction" => feeRes.verdict /= "Insufficient amount for fees"

\* A burn whose expected amount equals the total of the fees, a
\* reimbursement among them: validateBurnAmount reported it sufficient and
\* validateAction accepted the action built from it.
C37_Witness ==
    /\ feeOp = "validateAction"
    /\ feeRes.verdict = "ok"
    /\ feeRes.breakdown.expectedAmount = feeRes.breakdown.totalFees
    /\ feeRes.breakdown.reimbursement > 0
    /\ feeRes.action.funding.maxReimbursement = feeRes.breakdown.reimbursement

(***************************************************************************)
(* The shape of the actions build and fromOptions return                   *)
(***************************************************************************)
ArraysAligned(action) ==
    /\ Len(action.targets) >= 1
    /\ Len(action.callDatas) = Len(action.targets)
    /\ Len(action.values) = Len(action.targets)
    /\ Len(action.funding.tokensNeeded) = Len(action.funding.tokenAmounts)

IsNoOpSentinel(action) ==
    /\ action.targets = <<ZERO_ADDRESS>>
    /\ action.callDatas = <<EmptyHex>>
    /\ action.values = <<0>>

\* Options that name no call: no batch with targets and no single target.
OptionsWithoutCalls(options) ==
    /\ "target" \notin DOMAIN options
    /\ ("targets" \in DOMAIN options => options.targets = << >>)

\* C35: Every action returned by ActionBuilder.build or
\* ActionBuilder.fromOptions has targets, callDatas and values of equal
\* length at least 1 (zero calls become exactly one call to the zero address
\* with empty data and zero value) and funding.tokensNeeded and
\* funding.tokenAmounts of equal length.
C35_ReturnedActionAligned ==
    /\ [](ab.pc = "built" => ArraysAligned(ab.returned))
    /\ []((ab.pc = "static" /\ ~Threw(ab.returned)) =>
            /\ ArraysAligned(ab.returned)
            /\ OptionsWithoutCalls(ab.options) => IsNoOpSentinel(ab.returned))
    /\ [][(ab.pc = "built0" /\ ab'.pc = "built" /\ ab.calls = << >>) =>
            IsNoOpSentinel(ab'.returned)]_vars

\* fromOptions returned the no-op sentinel for options without calls that
\* ask for two funding tokens.
C35_Witness ==
    /\ ab.pc = "static"
    /\ ~Threw(ab.returned)
    /\ OptionsWithoutCalls(ab.options)
    /\ IsNoOpSentinel(ab.returned)
    /\ Len(ab.returned.funding.tokensNeeded) = 2

(***************************************************************************)
(* The reverse calculation as a fixed point of the forward one             *)
(***************************************************************************)
\* C36: The reverse result is a fixed point of the forward calculation: for
\* every target >= 0, flat fees >= 0 and basis points in 0..9999,
\* calculateFeesSync(calculateBurnForAction(target, opts).burnAmount, opts)
\* equals calculateBurnForAction(target, opts) in every field (burnAmount,
\* cctpFee, expectedAmount, protocolFee, totalFees, amountForAction).
C36_ReverseIsFixedPoint ==
    (/\ feeOp = "reverseThenForward"
     /\ ArgProtocolFeeBps \in 0..9999
     /\ ArgCctpFeeBps \in 0..9999) =>
        LET rev == calculateBurnForAction(feeArgs.amount, feeArgs.options)
        IN  /\ ~Threw(feeRes)
            /\ feeRes.burnAmount = rev.burnAmount
            /\ feeRes.cctpFee = rev.cctpFee
            /\ feeRes.expectedAmount = rev.expectedAmount
            /\ feeRes.protocolFee = rev.protocolFee
            /\ feeRes.totalFees = rev.totalFees
            /\ feeRes.amountForAction = rev.amountForAction

\* A reverse-then-forward call in which both fees are charged: the CCTP fee
\* and the protocol fee of the result are non-zero and the flat fees too.
C36_Witness ==
    /\ feeOp = "reverseThenForward"
    /\ ArgProtocolFeeBps \in 1..9999
    /\ ArgCctpFeeBps \in 1..9999
    /\ feeRes.cctpFee > 0
    /\ feeRes.protocolFee > 0
    /\ feeRes.indexerFee > 0
    /\ feeRes.relayerFee > 0
    /\ feeRes.amountForAction = feeArgs.amount
    /\ feeRes.amountForAction > 0

(***************************************************************************)
(* Progress of a tracker nobody stops                                      *)
(***************************************************************************)
\* The flow record of a transfer that was minted and executed.
ExecutedFlow == [read |-> TRUE, amount |-> 5, executed |-> TRUE]

\* The tracker without stop() calls of its owner.
ProgressNext ==
    \/ Start
    \/ Tick
    \/ \E r \in AttestationResponses : AttestationRead(r)
    \/ \E f \in FlowReads : MintFlowRead(f)
    \/ \E f \in FlowReads : ExecFlowRead(f)
    \/ AnnounceTimer
    \/ \E o \in SubscribeOutcomes : MintSubscribed(o)
    \/ \E w \in BOOLEAN, o \in SubscribeOutcomes : ExecSubscribed(w, o)
    \/ \E m \in BOOLEAN : MintedEvent(m)
    \/ \E m \in BOOLEAN, ok \in BOOLEAN : ExecutedEvent(m, ok)

\* The interval keeps firing and the timeout fires; every pending read
\* comes back; and a read that is made again and again comes back with the
\* complete attestation, respectively with the executed flow.
ProgressFairness ==
    /\ WF_vars(Tick)
    /\ WF_vars(AnnounceTimer)
    /\ WF_vars(\E r \in AttestationResponses : AttestationRead(r))
    /\ WF_vars(\E f \in FlowReads : MintFlowRead(f))
    /\ WF_vars(\E f \in FlowReads : ExecFlowRead(f))
    /\ SF_vars(AttestationRead("complete"))
    /\ SF_vars(MintFlowRead(ExecutedFlow))
    /\ SF_vars(ExecFlowRead(ExecutedFlow))

SpecProgress == TrInit /\ [][ProgressNext]_vars /\ ProgressFairness

\* The same for a tracker constructed without wakuManager, as trackTransfer
\* constructs it in gateway and in relay mode: only start(), the interval,
\* the reads of checkChainStatus and the timeout act on it.
PollingInit == TrInit /\ ~wakuOn

PollingNext ==
    \/ Start
    \/ Tick
    \/ \E r \in AttestationResponses : AttestationRead(r)
    \/ \E f \in FlowReads : MintFlowRead(f)
    \/ \E f \in FlowReads : ExecFlowRead(f)
    \/ AnnounceTimer

SpecPolling == PollingInit /\ [][PollingNext]_vars /\ ProgressFairness

\* C38: Progress: if the attestation service eventually reports a complete
\* attestation, the destination flow record eventually shows a non-zero
\* amount and executed = true, and poll ticks keep firing with reads that
\* eventually succeed, then a started tracker that its caller does not stop
\* eventually reaches EXECUTED.  (It holds under SpecProgress, with the
\* push channel, as well.)
C38_Progress == polling ~> (status = EXECUTED)

\* A tracker without push channel that polling alone took to EXECUTED.
C38_Witness ==
    /\ ~wakuOn
    /\ status = EXECUTED
    /\ lastOp = "execFlowRead"
    /\ ~polling

(***************************************************************************)
(* Polling subscriptions of PonsGatewayClient and WakuRestManager          *)
(***************************************************************************)
\* How many subscribe calls one instance receives.
MaxSubscribes == 3

TxHashes == {1, 2}

DestinationChainIds == {ARC_TESTNET_ID, SEPOLIA_ID}

\* Map.set(key, value) and Map.delete(key) of a Map kept as a function.
MapSet(map, key, value) ==
    [k \in DOMAIN map \cup {key} |-> IF k = key THEN value ELSE map[k]]

MapDelete(map, key) == [k \in DOMAIN map \ {key} |-> map[k]]

EmptyMap == [k \in {} |-> 0]

\* clearInterval(id): the timer with that id fires no more.
clearInterval(timers_, id) == {t \in timers_ : t.id # id}

\* new PonsGatewayClient(config): an empty pollIntervals map.  timers are the
\* intervals of setInterval still running, polls the keys with a getStatus
\* request in flight, returned the functions handed back to the callers.
NewGatewayClient ==
    [kind |-> "gateway", pollIntervals |-> EmptyMap, timers |-> {},
     created |-> 0, calls |-> 0, returned |-> << >>, awaiting |-> << >>,
     polls |-> {}, stopped |-> FALSE]

\* new WakuRestManager(...): empty pollIntervals and subscriptionIds maps.
NewWakuRestManager ==
    [kind |-> "rest", pollIntervals |-> EmptyMap, subscriptionIds |-> {},
     timers |-> {}, created |-> 0, calls |-> 0, returned |-> << >>,
     awaiting |-> << >>, polls |-> {}, stopped |-> FALSE]

\* setInterval followed by pollIntervals.set(key, interval): the new timer
\* runs and takes the place of whatever the map held for the key.
SetPollInterval(o, key) ==
    [o EXCEPT !.created = @ + 1,
              !.timers = @ \cup {[id |-> o.created + 1, key |-> key]},
              !.pollIntervals = MapSet(@, key, o.created + 1)]

\* PonsGatewayClient.unsubscribe(key): clears and forgets the interval the map
\* holds for the key, if any.
unsubscribe(o, key) ==
    IF key \in DOMAIN o.pollIntervals
    THEN [o EXCEPT !.timers = clearInterval(@, o.pollIntervals[key]),
                   !.pollIntervals = MapDelete(@, key)]
    ELSE o

\* The function a WakuRestManager subscription returns: as unsubscribe, and
\* the subscription id of the key is forgotten.
RestUnsubscribeBody(o, key) ==
    [unsubscribe(o, key) EXCEPT !.subscriptionIds = @ \ {key}]

OwnerInit ==
    /\ owner \in {NewGatewayClient, NewWakuRestManager}
    /\ FeeIdle
    /\ VaIdle
    /\ TrIdle
    /\ CdIdle
    /\ XIdle
    /\ RetryIdle
    /\ BuilderIdle
    /\ ClientIdle

CanSubscribe == owner.calls < MaxSubscribes

\* subscribeStatus(txHash, callback): the initial poll is sent, the interval
\* is set and stored under `status-${txHash}`, the unsubscribe function of
\* the key is returned.
SubscribeStatus(txHash) ==
    /\ OwnerFrame
    /\ owner.kind = "gateway"
    /\ CanSubscribe
    /\ LET key == <<"status", txHash>>
       IN owner' = [SetPollInterval(owner, key) EXCEPT
                        !.calls = @ + 1,
                        !.polls = @ \cup {key},
                        !.returned = Append(@, [key |-> key, kind |-> "unsubscribe",
                                                called |-> FALSE]),
                        !.stopped = FALSE]

\* subscribeTransfers(destinationChainId, callback): the interval is set and
\* stored under `transfers-${destinationChainId}`.
SubscribeTransfers(destinationChainId) ==
    /\ OwnerFrame
    /\ owner.kind = "gateway"
    /\ CanSubscribe
    /\ LET key == <<"transfers", destinationChainId>>
       IN owner' = [SetPollInterval(owner, key) EXCEPT
                        !.calls = @ + 1,
                        !.returned = Append(@, [key |-> key, kind |-> "unsubscribe",
                                                called |-> FALSE]),
                        !.stopped = FALSE]

\* An interval of subscribeStatus fires: poll() sends getStatus(txHash).
StatusIntervalFires(t) ==
    /\ OwnerFrame
    /\ owner.kind = "gateway"
    /\ t \in owner.timers
    /\ t.key[1] = "status"
    /\ t.key \notin owner.polls
    /\ owner' = [owner EXCEPT !.polls = @ \cup {t.key}]

\* What getStatus can come back with: the status field of the response, or a
\* thrown error.
StatusOutcomes == {"pending", "completed", "failed", "error"}

\* getStatus of poll() resolves: a terminal status unsubscribes the key, an
\* error is ignored.
StatusPolled(key, outcome) ==
    /\ OwnerFrame
    /\ owner.kind = "gateway"
    /\ key \in owner.polls
    /\ LET o == [owner EXCEPT !.polls = @ \ {key}]
       IN owner' = IF outcome \in {"completed", "failed"}
                   THEN unsubscribe(o, key)
                   ELSE o

\* A caller calls the function subscribeStatus or subscribeTransfers
\* returned to it.
GatewayUnsubscribe(i) ==
    /\ OwnerFrame
    /\ owner.kind = "gateway"
    /\ i \in DOMAIN owner.returned
    /\ ~owner.returned[i].called
    /\ owner' = [unsubscribe(owner, owner.returned[i].key) EXCEPT
                     !.returned[i].called = TRUE]

RECURSIVE UnsubscribeAll(_, _)
UnsubscribeAll(o, keys) ==
    IF keys = {}
    THEN o
    ELSE LET key == CHOOSE k \in keys : TRUE
         IN UnsubscribeAll(unsubscribe(o, key), keys \ {key})

\* PonsGatewayClient.stop(): unsubscribes every key of the map.
GatewayStop ==
    /\ OwnerFrame
    /\ owner.kind = "gateway"
    /\ ~owner.stopped
    /\ owner' = [UnsubscribeAll(owner, DOMAIN owner.pollIntervals) EXCEPT
                     !.stopped = TRUE]

\* subscribeMintEvents(callback, destinationChainId) up to its await of
\* createFilterSubscription.
SubscribeMintEvents(destinationChainId) ==
    /\ OwnerFrame
    /\ owner.kind = "rest"
    /\ CanSubscribe
    /\ owner' = [owner EXCEPT !.calls = @ + 1,
                              !.awaiting = Append(@, <<"minted", destinationChainId>>),
                              !.stopped = FALSE]

RemoveAt(seq, i) == SubSeq(seq, 1, i - 1) \o SubSeq(seq, i + 1, Len(seq))

\* createFilterSubscription resolves or throws: on success the request id is
\* stored, the interval is set and stored under `minted-${chainId}` and the
\* unsubscribe function is returned; on failure an empty function is.
FilterSubscriptionCreated(i, ok) ==
    /\ OwnerFrame
    /\ owner.kind = "rest"
    /\ i \in DOMAIN owner.awaiting
    /\ LET key == owner.awaiting[i]
           o == [owner EXCEPT !.awaiting = RemoveAt(@, i)]
       IN owner' = IF ok
                   THEN [SetPollInterval(o, key) EXCEPT
                             !.subscriptionIds = @ \cup {key},
                             !.returned = Append(@, [key |-> key,
                                                     kind |-> "unsubscribe",
                                                     called |-> FALSE])]
                   ELSE [o EXCEPT
                             !.returned = Append(@, [key |-> key, kind |-> "empty",
                                                     called |-> FALSE])]

\* A caller calls the function subscribeMintEvents returned to it.
RestUnsubscribe(i) ==
    /\ OwnerFrame
    /\ owner.kind = "rest"
    /\ i \in DOMAIN owner.returned
    /\ ~owner.returned[i].called
    /\ LET o == [owner EXCEPT !.returned[i].called = TRUE]
       IN owner' = IF owner.returned[i].kind = "unsubscribe"
                   THEN RestUnsubscribeBody(o, owner.returned[i].key)
                   ELSE o

\* WakuRestManager.stop(): clears every interval of the map, then both maps.
RestStop ==
    /\ OwnerFrame
    /\ owner.kind = "rest"
    /\ ~owner.stopped
    /\ owner' = [owner EXCEPT
                     !.timers = {t \in @ : \A k \in DOMAIN owner.pollIntervals :
                                              owner.pollIntervals[k] # t.id},
                     !.pollIntervals = EmptyMap,
                     !.subscriptionIds = {},
                     !.stopped = TRUE]

OwnerNext ==
    \/ \E h \in TxHashes : SubscribeStatus(h)
    \/ \E c \in DestinationChainIds : SubscribeTransfers(c)
    \/ \E t \in owner.timers : StatusIntervalFires(t)
    \/ \E k \in owner.polls, r \in StatusOutcomes : StatusPolled(k, r)
    \/ \E i \in 1..MaxSubscribes : GatewayUnsubscribe(i)
    \/ GatewayStop
    \/ \E c \in DestinationChainIds : SubscribeMintEvents(c)
    \/ \E i \in 1..MaxSubscribes, ok \in BOOLEAN : FilterSubscriptionCreated(i, ok)
    \/ \E i \in 1..MaxSubscribes : RestUnsubscribe(i)
    \/ RestStop

SpecSubscriptions == OwnerInit /\ [][OwnerNext]_vars

\* Every subscribe call has returned and every returned function was called.
AllUnsubscribed ==
    /\ owner.returned # << >>
    /\ owner.awaiting = << >>
    /\ \A i \in DOMAIN owner.returned : owner.returned[i].called

\* C40: no polling interval outlives its owner: once every returned
\* unsubscribe function has been called, or once stop() has been called and
\* no subscribe call was made since, no interval created by the instance is
\* still running, also when two subscriptions share a key.
C40_NoIntervalOutlivesOwner ==
    (owner.stopped \/ AllUnsubscribed) => owner.timers = {}

====
